---- MODULE Spec2Model ----
(***************************************************************************)
(* Model of the dual-stream alignment engine of sagoez/tracker:            *)
(*   src/src/domain/state.rs     State, StateBuffer                        *)
(*   src/src/port/parser.rs      JsonPathExtractor::extract_key            *)
(*   src/src/service/aligned.rs  AlignedTracker (merge loop, continuous    *)
(*                               alignment, round completion)              *)
(*   src/src/main.rs             run_aligned_tracker (Ctrl-C)              *)
(*                                                                         *)
(* Option<T> is a sequence of length <= 1: None is << >>, Some(v) is <<v>>.*)
(* A JSON event is a record [type, seq]: `type` is the leaf the configured *)
(* path reaches (a string, or Null when the field is missing or is not a   *)
(* scalar) and `seq` stands for the rest of the payload (the producer's    *)
(* running number, so two events of one side never share a payload).       *)
(***************************************************************************)
EXTENDS Integers, Sequences, FiniteSets, TLC

\* ------------------------------------------------------------------ bounds
MaxSend == 2
MaxRoundsCfg == 2
MaxCap == 3
MaxPush == 4
MaxRoundLen == 3
MaxEmit == 1
MaxFrames == 3
MaxStreak == 65
MaxPathLen == 3
MaxExtract == 2

\* ------------------------------------------------------- program constants
MaxOverflow == 101
BufferCapacity == 100
ChannelCapacity == 64
U64Bits == 64

\* ------------------------------------------------------------------ values
None == << >>
Some(v) == << v >>
IsSome(o) == Len(o) = 1
Unwrap(o) == o[1]

Null == "null"
Signal == "END"
KeyValues == {"X", Signal}
TypeLeaves == KeyValues \cup {Null}
ReportPath == "report.html"

VARIABLES
    \* configuration (AlignedTracker fields, fixed at construction)
    round_end_signal, visual, report_output, pretty_diff, max_rounds,
    \* the two channels: queued messages and whether the sender still lives
    left_rx, right_rx, left_tx_open, right_tx_open,
    \* locals of AlignedTracker::start
    left_buffer, right_buffer, left_round_complete, right_round_complete,
    rounds_completed, reporter,
    \* where start() is: "loop" (awaiting in select!), "exit_max" (returned
    \* from the round limit), "closed" (loop broken by a closed channel),
    \* "ctrl_c" (future dropped by run_aligned_tracker); and its result
    pc, result,
    \* what the most recent loop turn printed, diffed and wrote
    out,
    \* history: the events consumed so far on each side, the last consumed
    \* event's side, and the number of times both buffers were cleared
    consumed_left, consumed_right, last_side, clears,
    \* history: how many events each side had consumed at the last round
    \* boundary, and both buffers as the last completed round compared them
    round_start, last_round, report_paths,
    \* a StateBuffer on its own (domain/state.rs), with its pushes since the
    \* last clear
    buf, pushed,
    \* a source's spawned task on its own (adapter/websocket.rs, adapter/stream.rs):
    \* which source it is, where its task is, the WebSocket task's backoff_secs,
    \* the value its send() is holding, its channel and whether the receiver
    \* still exists
    src_kind, src_pc, backoff_secs, src_msg, src_rx, rx_alive,
    \* history: what the receiver took, the values the task handed to send(),
    \* the frames read (in all, and on the current connection), the sleeps
    \* since the last successful connection, the delay of the last sleep, and
    \* the sends that failed
    taken, handed, frames_read, conn_frames, streak, delay, failed_sends,
    \* a JsonPathExtractor on its own: the path given to new(), the event, the
    \* extractor's field_path once it is built, and the keys returned by the
    \* calls of extract_key made so far
    ex_path, ex_state, field_path, ex_keys,
    \* Tracker::start's locals
    left_state, right_state,
    \* main: the subcommand, whether --align-by was given, main's position,
    \* the tracker it built, the process's exit status and what it wrote to
    \* stderr
    command, align_by, main_pc, tracker, exit_code, stderr

cfg_vars == << round_end_signal, visual, report_output, pretty_diff, max_rounds >>
chan_vars == << left_rx, right_rx, left_tx_open, right_tx_open >>
loop_vars == << left_buffer, right_buffer, left_round_complete, right_round_complete,
                rounds_completed, reporter, pc, result, out >>
hist_vars == << consumed_left, consumed_right, last_side, clears, round_start, last_round,
               report_paths >>
buf_vars == << buf, pushed >>
src_vars == << src_kind, src_pc, backoff_secs, src_msg, src_rx, rx_alive,
              taken, handed, frames_read, conn_frames, streak, delay, failed_sends >>
ext_vars == << ex_path, ex_state, field_path, ex_keys >>
raw_vars == << left_state, right_state >>
main_vars == << command, align_by, main_pc, tracker, exit_code, stderr >>
aux_vars == << ext_vars, raw_vars, main_vars >>
vars == << cfg_vars, chan_vars, loop_vars, hist_vars, buf_vars, src_vars, aux_vars >>

\* ------------------------------------------------------- port/parser.rs
\* JsonPathExtractor::extract_key: a string leaf yields Some(leaf); a missing
\* field or a non-scalar leaf yields None.
extract_key(data) == IF data.type = Null THEN None ELSE Some(data.type)

\* ------------------------------------------------------- domain/state.rs
StateNew(data, alignment_key) == [data |-> data, alignment_key |-> alignment_key]

StateBufferNew(max_size) == [states |-> << >>, max_size |-> max_size]

PushEvictNewest(b, state) ==
    IF Len(b.states) >= b.max_size THEN b ELSE [b EXCEPT !.states = Append(b.states, state)]
BufPushUnbounded(b, state) == [b EXCEPT !.states = Append(b.states, state)]
\* StateBuffer::push: append, then drop the oldest entry when over capacity.
BufPush(b, state) ==
    LET appended == Append(b.states, state)
    IN  [b EXCEPT !.states = IF Len(appended) > b.max_size THEN Tail(appended) ELSE appended]

first(b) == IF Len(b.states) = 0 THEN None ELSE Some(b.states[1])
latest(b) == IF Len(b.states) = 0 THEN None ELSE Some(b.states[Len(b.states)])

last_keyed_alignment_key(b) ==
    LET keyed == SelectSeq(b.states, LAMBDA s : s.alignment_key # << >>)
    IN  IF Len(keyed) = 0 THEN << >> ELSE keyed[Len(keyed)].alignment_key
latest_alignment_key(b) == IF IsSome(latest(b)) THEN Unwrap(latest(b)).alignment_key ELSE None

BufClear(b) == [b EXCEPT !.states = << >>]

\* ---------------------------------------------------- adapter/reporter.rs
HtmlReporterNew == [left_states |-> << >>, right_states |-> << >>]
add_left(rep, state) == [rep EXCEPT !.left_states = Append(rep.left_states, state)]
add_right(rep, state) == [rep EXCEPT !.right_states = Append(rep.right_states, state)]

\* ---------------------------------------------------- service/aligned.rs
\* AlignedTracker::output_mode: visual > pretty_diff > logs.
output_mode_pretty_first(vis, pretty) == IF pretty THEN "PrettyDiff" ELSE IF vis THEN "Visual" ELSE "Logs"
output_mode(vis, pretty) == IF vis THEN "Visual" ELSE IF pretty THEN "PrettyDiff" ELSE "Logs"

mode == output_mode(visual, pretty_diff)

\* Differ::print_diff, an external sink: recorded with both payloads.
print_diff(key, l, r) == [kind |-> "diff", key |-> key, left |-> l, right |-> r]

\* AlignedTracker::check_alignment: what the continuous policy emits after a
\* push, from the two buffers' latest keys.
check_alignment(lb, rb, m) ==
    LET left_key == latest_alignment_key(lb)
        right_key == latest_alignment_key(rb)
    IN  IF IsSome(left_key) /\ IsSome(right_key) /\ Unwrap(left_key) = Unwrap(right_key)
        THEN IF m = "Logs" THEN << [kind |-> "aligned", key |-> Unwrap(left_key)] >>
             ELSE IF m = "PrettyDiff"
             THEN << [kind |-> "aligned", key |-> Unwrap(left_key)],
                     print_diff(Unwrap(left_key), Unwrap(latest(lb)).data, Unwrap(latest(rb)).data) >>
             ELSE << >>
        ELSE IF IsSome(left_key) /\ IsSome(right_key)
        THEN IF m = "Visual" THEN << >>
             ELSE << [kind |-> "out_of_sync", left_key |-> Unwrap(left_key),
                      right_key |-> Unwrap(right_key)] >>
        ELSE IF IsSome(left_key)
        THEN IF m = "Visual" THEN << >>
             ELSE << [kind |-> "waiting", ahead |-> "left", key |-> Unwrap(left_key)] >>
        ELSE IF IsSome(right_key)
        THEN IF m = "Visual" THEN << >>
             ELSE << [kind |-> "waiting", ahead |-> "right", key |-> Unwrap(right_key)] >>
        ELSE << >>

NotSkipped(r) == r.kind # "skip"

\* right_states.iter().find(|r| r.alignment_key.as_ref() == Some(left_key)):
\* the index of the first right state carrying the key, 0 when there is none.
FindRight(right_states, left_key) ==
    LET S == {j \in 1..Len(right_states) : right_states[j].alignment_key = Some(left_key)}
    IN  IF S = {} THEN 0 ELSE CHOOSE j \in S : \A k \in S : j <= k

\* The first loop of the cross-comparison (aligned.rs 358-370): one result per
\* keyed left state, in left-buffer order.
CompareLeft(left_states, right_states) ==
    SelectSeq(
        [i \in 1..Len(left_states) |->
            IF IsSome(left_states[i].alignment_key)
            THEN LET left_key == Unwrap(left_states[i].alignment_key)
                     j == FindRight(right_states, left_key)
                 IN  IF j # 0
                     THEN [kind |-> "diff", key |-> left_key, index |-> i,
                           left |-> left_states[i].data, right |-> right_states[j].data]
                     ELSE [kind |-> "missing_in_right", key |-> left_key, index |-> i]
            ELSE [kind |-> "skip"]],
        NotSkipped)

\* The second loop (aligned.rs 373-379): keyed right states whose key no left
\* state carries, in right-buffer order.
CompareRight(left_states, right_states) ==
    SelectSeq(
        [j \in 1..Len(right_states) |->
            IF /\ IsSome(right_states[j].alignment_key)
               /\ ~ \E i \in 1..Len(left_states) :
                       left_states[i].alignment_key = right_states[j].alignment_key
            THEN [kind |-> "only_in_right", key |-> Unwrap(right_states[j].alignment_key)]
            ELSE [kind |-> "skip"]],
        NotSkipped)

render_round_comparison_by_key(left_states, right_states) ==
    LET right_of(i) == IF IsSome(left_states[i].alignment_key)
                       THEN FindRight(right_states, Unwrap(left_states[i].alignment_key))
                       ELSE 0
    IN  [kind |-> "visual_round",
         rows |-> [i \in 1..Len(left_states) |->
                     [left_key |-> left_states[i].alignment_key,
                      right_key |-> IF right_of(i) # 0 THEN left_states[i].alignment_key ELSE None,
                      status |-> IF right_of(i) # 0 THEN "ok"
                                 ELSE IF IsSome(left_states[i].alignment_key) THEN "MISSING_RIGHT"
                                 ELSE ""]]]
\* ---------------------------------------------------- adapter/visualizer.rs
\* TimelineVisualizer::render_round_comparison: rows pair the two slices by
\* index.
render_round_comparison(left_states, right_states) ==
    LET max_len == IF Len(left_states) >= Len(right_states)
                   THEN Len(left_states) ELSE Len(right_states)
        key_at(states, i) == IF i <= Len(states) THEN states[i].alignment_key ELSE None
        status(l, r) == IF IsSome(l) /\ IsSome(r) /\ Unwrap(l) = Unwrap(r) THEN "ok"
                        ELSE IF IsSome(l) /\ IsSome(r) THEN "MISMATCH"
                        ELSE IF IsSome(l) THEN "MISSING_RIGHT"
                        ELSE IF IsSome(r) THEN "MISSING_LEFT"
                        ELSE ""
    IN  [kind |-> "visual_round",
         rows |-> [i \in 1..max_len |->
                     [left_key |-> key_at(left_states, i),
                      right_key |-> key_at(right_states, i),
                      status |-> status(key_at(left_states, i), key_at(right_states, i))]]]

\* ---------------------------------------------------- service/aligned.rs
\* What HtmlReporter::generate is asked to write: the states of both sides;
\* `written` is whether File::create and write_all succeeded.
Report(kind, left_states, right_states, written) ==
    [kind |-> kind, left |-> left_states, right |-> right_states, written |-> written]

\* `if let Some(max) = self.max_rounds { if *rounds_completed >= max {..} }`
ShouldExitStrict(n) == IsSome(max_rounds) /\ n > Unwrap(max_rounds)
ShouldExitPositive(n) == IsSome(max_rounds) /\ Unwrap(max_rounds) > 0 /\ n >= Unwrap(max_rounds)
ShouldExit(n) == IsSome(max_rounds) /\ n >= Unwrap(max_rounds)

CompleteRoundKeepFlags(lb, rb, rounds, report_ok) ==
    [left_buffer |-> BufClear(lb), right_buffer |-> BufClear(rb),
     left_flag |-> TRUE, right_flag |-> TRUE,
     rounds_completed |-> rounds + 1, out |-> << >>, should_exit |-> ShouldExit(rounds + 1)]
CompleteRoundKeepRight(lb, rb, rounds, report_ok) ==
    [left_buffer |-> BufClear(lb), right_buffer |-> rb,
     left_flag |-> FALSE, right_flag |-> FALSE,
     rounds_completed |-> rounds + 1, out |-> << >>, should_exit |-> ShouldExit(rounds + 1)]
\* The index of the first state carrying the round-end signal, else the length.
FirstSignal(states) ==
    LET S == {i \in 1..Len(states) : states[i].alignment_key = Some(Signal)}
    IN  IF S = {} THEN Len(states) ELSE CHOOSE i \in S : \A k \in S : i <= k
CompleteRoundUpToSignal(lb, rb, rounds, report_ok) ==
    LET left_states == SubSeq(lb.states, 1, FirstSignal(lb.states))
        right_states == SubSeq(rb.states, 1, FirstSignal(rb.states))
    IN  [left_buffer |-> [lb EXCEPT !.states = SubSeq(lb.states, FirstSignal(lb.states) + 1,
                                                      Len(lb.states))],
         right_buffer |-> [rb EXCEPT !.states = SubSeq(rb.states, FirstSignal(rb.states) + 1,
                                                       Len(rb.states))],
         left_flag |-> FALSE, right_flag |-> FALSE,
         rounds_completed |-> rounds + 1,
         out |-> IF visual THEN << render_round_comparison(left_states, right_states) >>
                 ELSE CompareLeft(left_states, right_states)
                      \o CompareRight(left_states, right_states),
         should_exit |-> ShouldExit(rounds + 1)]
CompleteRoundReportAfterClear(lb, rb, rounds, report_ok) ==
    [left_buffer |-> BufClear(lb), right_buffer |-> BufClear(rb),
     left_flag |-> FALSE, right_flag |-> FALSE,
     rounds_completed |-> rounds + 1,
     out |-> IF IsSome(report_output)
             THEN << Report("round_report", BufClear(lb).states, BufClear(rb).states, report_ok) >>
             ELSE << >>,
     should_exit |-> ShouldExit(rounds + 1)]
CompleteRoundKeepLeftFlag(lb, rb, rounds, report_ok) ==
    [left_buffer |-> BufClear(lb), right_buffer |-> BufClear(rb),
     left_flag |-> TRUE, right_flag |-> FALSE,
     rounds_completed |-> rounds + 1, out |-> << >>, should_exit |-> ShouldExit(rounds + 1)]
CompleteRoundReportFatal(lb, rb, rounds, report_ok) ==
    [left_buffer |-> IF IsSome(report_output) /\ ~report_ok THEN lb ELSE BufClear(lb),
     right_buffer |-> IF IsSome(report_output) /\ ~report_ok THEN rb ELSE BufClear(rb),
     left_flag |-> FALSE, right_flag |-> FALSE,
     rounds_completed |-> rounds + 1,
     out |-> IF IsSome(report_output)
             THEN << Report("round_report", lb.states, rb.states, report_ok) >>
             ELSE << >>,
     should_exit |-> ShouldExit(rounds + 1)]
CompleteRoundRightFirst(lb, rb, rounds, report_ok) ==
    [left_buffer |-> BufClear(lb), right_buffer |-> BufClear(rb),
     left_flag |-> FALSE, right_flag |-> FALSE,
     rounds_completed |-> rounds + 1,
     out |-> IF ~visual
             THEN CompareRight(lb.states, rb.states) \o CompareLeft(lb.states, rb.states)
             ELSE << >>,
     should_exit |-> ShouldExit(rounds + 1)]
\* The branch of check_round_completion taken when both flags are set
\* (aligned.rs 339-419): count the round, compare, report, reset.
\* report_ok is the outcome of the report's file write, when one is made.
CompleteRound(lb, rb, rounds, report_ok) ==
    LET n == rounds + 1
        left_states == lb.states
        right_states == rb.states
        shown == IF visual
                 THEN << render_round_comparison(left_states, right_states) >>
                 ELSE << [kind |-> "round_complete", left_len |-> Len(left_states),
                          right_len |-> Len(right_states)] >>
        compared == IF ~visual
                    THEN CompareLeft(left_states, right_states)
                         \o CompareRight(left_states, right_states)
                    ELSE << >>
        report == IF IsSome(report_output)
                  THEN << Report("round_report", lb.states, rb.states, report_ok) >>
                  ELSE << >>
    IN  [left_buffer |-> BufClear(lb), right_buffer |-> BufClear(rb),
         left_flag |-> FALSE, right_flag |-> FALSE,
         rounds_completed |-> n,
         out |-> shown \o compared \o report,
         should_exit |-> ShouldExit(n)]

\* The other branches (aligned.rs 420-426): nothing changes, Logs mode says
\* which side is waiting.
WaitRoundForgets(lb, rb, left_complete, right_complete, left_flag, right_flag, rounds) ==
    [left_buffer |-> lb, right_buffer |-> rb,
     left_flag |-> FALSE, right_flag |-> FALSE,
     rounds_completed |-> rounds,
     out |-> << >>,
     should_exit |-> FALSE]
WaitRoundDropsOther(lb, rb, left_complete, right_complete, left_flag, right_flag, rounds) ==
    [left_buffer |-> IF right_complete THEN BufClear(lb) ELSE lb,
     right_buffer |-> IF left_complete THEN BufClear(rb) ELSE rb,
     left_flag |-> left_flag, right_flag |-> right_flag,
     rounds_completed |-> rounds,
     out |-> << >>,
     should_exit |-> FALSE]
WaitRound(lb, rb, left_complete, right_complete, left_flag, right_flag, rounds) ==
    [left_buffer |-> lb, right_buffer |-> rb,
     left_flag |-> left_flag, right_flag |-> right_flag,
     rounds_completed |-> rounds,
     out |-> IF left_complete /\ mode = "Logs"
             THEN << [kind |-> "round_waiting", complete |-> "left"] >>
             ELSE IF right_complete /\ mode = "Logs"
             THEN << [kind |-> "round_waiting", complete |-> "right"] >>
             ELSE << >>,
     should_exit |-> FALSE]

check_round_completion_either(lb, rb, left_complete, right_complete, left_flag, right_flag, rounds, report_ok) ==
    IF left_complete \/ right_complete
    THEN CompleteRound(lb, rb, rounds, report_ok)
    ELSE WaitRound(lb, rb, left_complete, right_complete, left_flag, right_flag, rounds)
\* AlignedTracker::check_round_completion. left_complete/right_complete are
\* the copies of the flags the caller passes; the result gives the new
\* buffers, flags and counter, what was emitted, and the returned bool.
check_round_completion(lb, rb, left_complete, right_complete, left_flag, right_flag, rounds, report_ok) ==
    IF left_complete /\ right_complete
    THEN CompleteRound(lb, rb, rounds, report_ok)
    ELSE WaitRound(lb, rb, left_complete, right_complete, left_flag, right_flag, rounds)

\* `if let Some(ref signal) = self.round_end_signal { if key == signal {..} }`
IsSignal(alignment_key) ==
    IsSome(alignment_key) /\ IsSome(round_end_signal)
        /\ Unwrap(alignment_key) = Unwrap(round_end_signal)

\* `if self.round_end_signal.is_some()` (aligned.rs 162, 234)
RoundModeOrLimit == IsSome(round_end_signal) \/ IsSome(max_rounds)
RoundMode == IsSome(round_end_signal)

\* The tail of a select! arm after the push (aligned.rs 161-182 / 233-254):
\* the round policy when a signal is configured, else the continuous policy.
AfterPush(lb, rb, lflag, rflag, report_ok) ==
    IF RoundMode
    THEN LET r == check_round_completion(lb, rb, lflag, rflag, lflag, rflag,
                                         rounds_completed, report_ok)
         IN  /\ left_buffer' = r.left_buffer
             /\ right_buffer' = r.right_buffer
             /\ left_round_complete' = r.left_flag
             /\ right_round_complete' = r.right_flag
             /\ rounds_completed' = r.rounds_completed
             /\ out' = r.out \o (IF r.should_exit /\ mode # "Visual"
                                 THEN << [kind |-> "exiting", rounds |-> r.rounds_completed] >>
                                 ELSE << >>)
             /\ pc' = IF r.should_exit THEN "exit_max" ELSE "loop"
             /\ result' = IF r.should_exit THEN Some("Ok") ELSE None
    ELSE /\ left_buffer' = lb
         /\ right_buffer' = rb
         /\ left_round_complete' = lflag
         /\ right_round_complete' = rflag
         /\ out' = check_alignment(lb, rb, mode)
         /\ UNCHANGED << rounds_completed, pc, result >>

\* History only. A turn that pushed a state and ends with both buffers empty
\* is a turn that cleared them; a turn that moved the counter closed a round,
\* on the buffers lb, rb it was given, after nl and nr events.
Cleared(lb, rb) == IF lb.states = << >> /\ rb.states = << >> THEN 1 ELSE 0

\* `chrono::Utc::now().format("%Y%m%d_%H%M%S")` (aligned.rs 385): the wall
\* clock cut to whole seconds, counted here from the first round report.
\* Between two round reports the stamp advances by the whole seconds that
\* went by: none or more in Logs and PrettyDiff mode, at least two in Visual
\* mode, which sleeps 2000 ms after drawing each round (aligned.rs 344-351).
Elapsed == IF visual THEN {2} ELSE {0, 1}
Stamps(paths) ==
    IF paths = << >> THEN {0} ELSE {paths[Len(paths)].stamp + e : e \in Elapsed}
\* `output_path.replace(".html", &format!("_{}.html", timestamp))` (aligned.rs
\* 386): each occurrence of ".html" gets the stamp in front of it; a path
\* without ".html" is returned as it is.
ContainsHtml(output_path) == output_path \in {ReportPath}
report_path(output_path, timestamp) ==
    [base |-> output_path,
     suffix |-> IF ContainsHtml(output_path) THEN Some(timestamp) ELSE None]

Record(lb, rb, nl, nr) ==
    /\ \E timestamp \in Stamps(report_paths) :
          report_paths' =
              IF rounds_completed' # rounds_completed /\ IsSome(report_output)
              THEN Append(report_paths,
                          [path |-> report_path(Unwrap(report_output), timestamp),
                           stamp |-> timestamp,
                           written |-> \E n \in 1..Len(out') :
                                          out'[n].kind = "round_report" /\ out'[n].written])
              ELSE report_paths
    /\ clears' = clears + Cleared(left_buffer', right_buffer')
    /\ round_start' = IF rounds_completed' # rounds_completed
                      THEN << nl, nr >>
                      ELSE round_start
    /\ last_round' = IF rounds_completed' # rounds_completed
                     THEN Some([left |-> lb.states, right |-> rb.states])
                     ELSE last_round

\* select! arm `msg = left_rx.recv()` with Some(data) (aligned.rs 120-183).
RecvLeft ==
    /\ pc = "loop"
    /\ left_rx # << >>
    /\ \E report_ok \in BOOLEAN :
        LET data == Head(left_rx)
            alignment_key == extract_key(data)
            state == StateNew(data, alignment_key)
        IN  /\ left_rx' = Tail(left_rx)
            /\ reporter' = IF IsSome(reporter) THEN Some(add_left(Unwrap(reporter), state))
                           ELSE reporter
            /\ AfterPush(BufPush(left_buffer, state), right_buffer,
                         IF IsSignal(alignment_key) THEN TRUE ELSE left_round_complete,
                         right_round_complete, report_ok)
            /\ consumed_left' = Append(consumed_left, data)
            /\ last_side' = "left"
            /\ Record(BufPush(left_buffer, state), right_buffer,
                      Len(consumed_left) + 1, Len(consumed_right))
    /\ UNCHANGED << cfg_vars, right_rx, left_tx_open, right_tx_open, consumed_right, buf_vars, src_vars, aux_vars >>

\* select! arm `msg = right_rx.recv()` with Some(data) (aligned.rs 192-255).
\* A loop that drains the left stream to its end before it reads the right.
RecvRightAfterLeft ==
    /\ pc = "loop" /\ ~left_tx_open /\ left_rx = << >>
    /\ right_rx # << >>
    /\ right_rx' = Tail(right_rx)
    /\ consumed_right' = Append(consumed_right, Head(right_rx))
    /\ last_side' = "right"
    /\ UNCHANGED << cfg_vars, left_rx, left_tx_open, right_tx_open, loop_vars, consumed_left,
                    clears, round_start, last_round, report_paths, buf_vars, src_vars, aux_vars >>
RecvRight ==
    /\ pc = "loop"
    /\ right_rx # << >>
    /\ \E report_ok \in BOOLEAN :
        LET data == Head(right_rx)
            alignment_key == extract_key(data)
            state == StateNew(data, alignment_key)
        IN  /\ right_rx' = Tail(right_rx)
            /\ reporter' = IF IsSome(reporter) THEN Some(add_right(Unwrap(reporter), state))
                           ELSE reporter
            /\ AfterPush(left_buffer, BufPush(right_buffer, state),
                         left_round_complete,
                         IF IsSignal(alignment_key) THEN TRUE ELSE right_round_complete,
                         report_ok)
            /\ consumed_right' = Append(consumed_right, data)
            /\ last_side' = "right"
            /\ Record(left_buffer, BufPush(right_buffer, state),
                      Len(consumed_left), Len(consumed_right) + 1)
    /\ UNCHANGED << cfg_vars, left_rx, left_tx_open, right_tx_open, consumed_left, buf_vars, src_vars, aux_vars >>

AfterBreakErr(side, report_ok) ==
    /\ out' = IF IsSome(report_output) /\ IsSome(reporter) /\ report_ok
              THEN << Report("final_report", Unwrap(reporter).left_states,
                             Unwrap(reporter).right_states, report_ok) >>
              ELSE << >>
    /\ pc' = "closed"
    /\ result' = IF IsSome(report_output) /\ ~report_ok THEN Some("Err") ELSE Some("Ok")
AfterBreakRoundBuffers(side, report_ok) ==
    /\ out' = (IF mode # "Visual" THEN << [kind |-> "stream_closed", side |-> side] >>
               ELSE << >>)
              \o (IF IsSome(report_output) /\ IsSome(reporter)
                  THEN << [path |-> [base |-> Unwrap(report_output), suffix |-> None]]
                          @@ Report("final_report", left_buffer.states,
                                    right_buffer.states, report_ok) >>
                  ELSE << >>)
    /\ pc' = "closed"
    /\ result' = Some("Ok")
\* After `break` (aligned.rs 267-274): the run's reporter is written to the
\* configured path as it is (`rep.generate(output_path)`, no stamp), and
\* start() returns Ok(()).
AfterBreak(side, report_ok) ==
    /\ out' = (IF mode # "Visual" THEN << [kind |-> "stream_closed", side |-> side] >>
               ELSE << >>)
              \o (IF IsSome(report_output) /\ IsSome(reporter)
                  THEN << [path |-> [base |-> Unwrap(report_output), suffix |-> None]]
                          @@ Report("final_report", Unwrap(reporter).left_states,
                                    Unwrap(reporter).right_states, report_ok) >>
                  ELSE << >>)
    /\ pc' = "closed"
    /\ result' = Some("Ok")

\* select! arm `msg = left_rx.recv()` with None: the channel is empty and its
\* sender is gone (aligned.rs 184-189).
RecvLeftNone ==
    /\ pc = "loop"
    /\ left_rx = << >>
    /\ ~left_tx_open
    /\ \E report_ok \in BOOLEAN : AfterBreak("left", report_ok)
    /\ UNCHANGED << cfg_vars, chan_vars, left_buffer, right_buffer, left_round_complete,
                    right_round_complete, rounds_completed, reporter, hist_vars, buf_vars, src_vars, aux_vars >>

\* select! arm `msg = right_rx.recv()` with None (aligned.rs 256-261).
RecvRightNone ==
    /\ pc = "loop"
    /\ right_rx = << >>
    /\ ~right_tx_open
    /\ \E report_ok \in BOOLEAN : AfterBreak("right", report_ok)
    /\ UNCHANGED << cfg_vars, chan_vars, left_buffer, right_buffer, left_round_complete,
                    right_round_complete, rounds_completed, reporter, hist_vars, buf_vars, src_vars, aux_vars >>

\* ------------------------------------------------------------- main.rs
CtrlCFlushesRound ==
    /\ pc = "loop"
    /\ pc' = "ctrl_c"
    /\ result' = Some("Ok")
    /\ out' = IF left_round_complete \/ right_round_complete
              THEN << Report("round_report", left_buffer.states, right_buffer.states, TRUE) >>
              ELSE << [kind |-> "ctrl_c"] >>
    /\ UNCHANGED << cfg_vars, chan_vars, left_buffer, right_buffer, left_round_complete,
                    right_round_complete, rounds_completed, reporter, hist_vars, buf_vars, src_vars, aux_vars >>
\* run_aligned_tracker: tokio::select! over tracker.start() and ctrl_c(). The
\* start() future can lose only where it is suspended, at the loop's select!;
\* it is then dropped as it is and Ok(()) is returned.
\* A cancellation that could drop the start() future inside an arm.
CtrlCAnywhere ==
    /\ pc \in {"loop", "pushed", "counted"}
    /\ pc' = "ctrl_c"
    /\ result' = Some("Ok")
    /\ out' = << [kind |-> "ctrl_c"] >>
    /\ UNCHANGED << cfg_vars, chan_vars, left_buffer, right_buffer, left_round_complete,
                    right_round_complete, rounds_completed, reporter, hist_vars, buf_vars,
                    src_vars, aux_vars >>
CtrlC ==
    /\ pc = "loop"
    /\ pc' = "ctrl_c"
    /\ result' = Some("Ok")
    /\ out' = << [kind |-> "ctrl_c"] >>
    /\ UNCHANGED << cfg_vars, chan_vars, left_buffer, right_buffer, left_round_complete,
                    right_round_complete, rounds_completed, reporter, hist_vars, buf_vars, src_vars, aux_vars >>

\* ------------------------------------------------------------ port/source.rs
\* A StateSource's task: it sends JSON values on its bounded channel while the
\* receiver lives, and may end by dropping the sender.
NewEvent(t, sent) == [type |-> t, seq |-> sent + 1]

SendLeft ==
    /\ pc = "loop"
    /\ left_tx_open
    /\ Len(left_rx) < ChannelCapacity
    /\ Len(consumed_left) + Len(left_rx) < MaxSend
    /\ \E t \in TypeLeaves :
        left_rx' = Append(left_rx, NewEvent(t, Len(consumed_left) + Len(left_rx)))
    /\ UNCHANGED << cfg_vars, right_rx, left_tx_open, right_tx_open, loop_vars, hist_vars,
                    buf_vars, src_vars, aux_vars >>

SendRight ==
    /\ pc = "loop"
    /\ right_tx_open
    /\ Len(right_rx) < ChannelCapacity
    /\ Len(consumed_right) + Len(right_rx) < MaxSend
    /\ \E t \in TypeLeaves :
        right_rx' = Append(right_rx, NewEvent(t, Len(consumed_right) + Len(right_rx)))
    /\ UNCHANGED << cfg_vars, left_rx, left_tx_open, right_tx_open, loop_vars, hist_vars,
                    buf_vars, src_vars, aux_vars >>

CloseLeft ==
    /\ pc = "loop"
    /\ left_tx_open
    /\ left_tx_open' = FALSE
    /\ UNCHANGED << cfg_vars, left_rx, right_rx, right_tx_open, loop_vars, hist_vars, buf_vars, src_vars, aux_vars >>

CloseRight ==
    /\ pc = "loop"
    /\ right_tx_open
    /\ right_tx_open' = FALSE
    /\ UNCHANGED << cfg_vars, left_rx, right_rx, left_tx_open, loop_vars, hist_vars, buf_vars, src_vars, aux_vars >>

\* No source task is under observation.
SourceIdle ==
    /\ src_kind = "none" /\ src_pc = "none" /\ backoff_secs = 0
    /\ src_msg = None /\ src_rx = << >> /\ rx_alive = TRUE
    /\ taken = << >> /\ handed = << >> /\ frames_read = 0 /\ conn_frames = << >>
    /\ streak = 0 /\ delay = 0 /\ failed_sends = 0

\* The values of the variables of the key extractor, of the raw tracker and
\* of main while none of them is running.
AuxIdle ==
    /\ ex_path = << >> /\ ex_state = None /\ field_path = None /\ ex_keys = << >>
    /\ left_state = None /\ right_state = None
    /\ command = "none" /\ align_by = FALSE /\ main_pc = "none" /\ tracker = "none"
    /\ exit_code = None /\ stderr = << >>

\* ------------------------------------------------------------ the engine
MaxRoundsChoices == {None} \cup {Some(n) : n \in 0..MaxRoundsCfg}

Init ==
    /\ round_end_signal \in {None, Some(Signal)}
    /\ visual \in BOOLEAN
    /\ pretty_diff \in BOOLEAN
    /\ report_output \in {None, Some(ReportPath)}
    /\ max_rounds \in MaxRoundsChoices
    /\ left_rx = << >> /\ right_rx = << >>
    /\ left_tx_open = TRUE /\ right_tx_open = TRUE
    /\ left_buffer = StateBufferNew(BufferCapacity)
    /\ right_buffer = StateBufferNew(BufferCapacity)
    /\ left_round_complete = FALSE /\ right_round_complete = FALSE
    /\ rounds_completed = 0
    /\ reporter = IF IsSome(report_output) THEN Some(HtmlReporterNew) ELSE None
    /\ pc = "loop" /\ result = None
    /\ out = << >>
    /\ consumed_left = << >> /\ consumed_right = << >>
    /\ last_side = "none" /\ clears = 0
    /\ round_start = << 0, 0 >> /\ last_round = None /\ report_paths = << >>
    /\ buf = StateBufferNew(0) /\ pushed = << >>
    /\ SourceIdle /\ AuxIdle

\* The program as main.rs builds it: both concrete sources (WebSocketSource,
\* RandomStream) loop forever and never drop their sender while the receiver
\* lives, so recv() never yields None.
Next ==
    \/ SendLeft \/ SendRight
    \/ RecvLeft \/ RecvRight
    \/ CtrlC

Spec == Init /\ [][Next]_vars

\* A StateSource whose task ends: it sends at most MaxEmit values before it
\* drops its sender.
EmitLeft == Len(consumed_left) + Len(left_rx) < MaxEmit /\ SendLeft
EmitRight == Len(consumed_right) + Len(right_rx) < MaxEmit /\ SendRight

\* The engine over any StateSource, whose task may end and drop its sender.
NextStreamEnd ==
    \/ EmitLeft \/ EmitRight \/ CloseLeft \/ CloseRight
    \/ RecvLeft \/ RecvRight \/ RecvLeftNone \/ RecvRightNone
    \/ CtrlC

SpecStreamEnd == Init /\ [][NextStreamEnd]_vars

\* ------------------------------------------------ the merge loop's fairness
\* tokio::select! without `biased;` polls its branches starting from one
\* chosen at random on every turn (aligned.rs 119-264), so a
\* branch that stays ready is not passed over for ever: weak fairness of
\* each receive branch.
NextFair ==
    \/ EmitLeft \/ EmitRight
    \/ RecvLeft \/ RecvRight
    \/ CtrlC

SpecFair == Init /\ [][NextFair]_vars /\ WF_vars(RecvLeft) /\ WF_vars(RecvRight)
\* --------------------------------------- round mode under a fair merge loop
\* The program of Spec with a round-end signal and no report configured,
\* over sources whose events all carry a key (the signal or another one),
\* and the fairness of SpecFair.
InitRound == Init /\ IsSome(round_end_signal) /\ report_output = None

KeyedSendLeft == SendLeft /\ left_rx'[Len(left_rx')].type # Null
KeyedSendRight == SendRight /\ right_rx'[Len(right_rx')].type # Null

NextRound ==
    \/ KeyedSendLeft \/ KeyedSendRight
    \/ RecvLeft \/ RecvRight
    \/ CtrlC

SpecRound == InitRound /\ [][NextRound]_vars /\ WF_vars(RecvLeft) /\ WF_vars(RecvRight)
\* ------------------------------- one select! arm, statement by statement
\* The body of an arm is straight-line code without an .await (aligned.rs
\* 121-182, 193-254; check_round_completion is a plain fn): once recv() has
\* returned, the start() future is not polled again, and so cannot be
\* dropped by run_aligned_tracker's select!, before the arm has run to the
\* next loop turn. The source tasks are separate tasks and may send in
\* between. pc = "pushed" after the flag update and the push, "counted"
\* when check_round_completion has incremented the counter (aligned.rs 339)
\* and has not yet compared, reported, cleared and reset.
StepPushLeft ==
    /\ pc = "loop"
    /\ left_rx # << >>
    /\ LET data == Head(left_rx)
           alignment_key == extract_key(data)
           state == StateNew(data, alignment_key)
       IN  /\ left_rx' = Tail(left_rx)
           /\ reporter' = IF IsSome(reporter) THEN Some(add_left(Unwrap(reporter), state))
                          ELSE reporter
           /\ left_round_complete' = IF IsSignal(alignment_key) THEN TRUE
                                     ELSE left_round_complete
           /\ left_buffer' = BufPush(left_buffer, state)
           /\ consumed_left' = Append(consumed_left, data)
    /\ last_side' = "left"
    /\ pc' = "pushed"
    /\ UNCHANGED << cfg_vars, right_rx, left_tx_open, right_tx_open, right_buffer,
                    right_round_complete, rounds_completed, result, out, consumed_right,
                    clears, round_start, last_round, report_paths, buf_vars, src_vars,
                    aux_vars >>

StepPushRight ==
    /\ pc = "loop"
    /\ right_rx # << >>
    /\ LET data == Head(right_rx)
           alignment_key == extract_key(data)
           state == StateNew(data, alignment_key)
       IN  /\ right_rx' = Tail(right_rx)
           /\ reporter' = IF IsSome(reporter) THEN Some(add_right(Unwrap(reporter), state))
                          ELSE reporter
           /\ right_round_complete' = IF IsSignal(alignment_key) THEN TRUE
                                      ELSE right_round_complete
           /\ right_buffer' = BufPush(right_buffer, state)
           /\ consumed_right' = Append(consumed_right, data)
    /\ last_side' = "right"
    /\ pc' = "pushed"
    /\ UNCHANGED << cfg_vars, left_rx, left_tx_open, right_tx_open, left_buffer,
                    left_round_complete, rounds_completed, result, out, consumed_left,
                    clears, round_start, last_round, report_paths, buf_vars, src_vars,
                    aux_vars >>

\* `*rounds_completed += 1` at the head of the completing branch.
StepCount ==
    /\ pc = "pushed"
    /\ RoundMode /\ left_round_complete /\ right_round_complete
    /\ rounds_completed' = rounds_completed + 1
    /\ pc' = "counted"
    /\ UNCHANGED << cfg_vars, chan_vars, left_buffer, right_buffer, left_round_complete,
                    right_round_complete, reporter, result, out, hist_vars, buf_vars,
                    src_vars, aux_vars >>

\* The rest of the completing branch: compare, report, reset, limit.
StepComplete ==
    /\ pc = "counted"
    /\ \E report_ok \in BOOLEAN :
        LET r == CompleteRound(left_buffer, right_buffer, rounds_completed - 1, report_ok)
        IN  /\ left_buffer' = r.left_buffer
            /\ right_buffer' = r.right_buffer
            /\ left_round_complete' = r.left_flag
            /\ right_round_complete' = r.right_flag
            /\ out' = r.out \o (IF r.should_exit /\ mode # "Visual"
                                THEN << [kind |-> "exiting", rounds |-> r.rounds_completed] >>
                                ELSE << >>)
            /\ pc' = IF r.should_exit THEN "exit_max" ELSE "loop"
            /\ result' = IF r.should_exit THEN Some("Ok") ELSE None
            /\ \E timestamp \in Stamps(report_paths) :
                  report_paths' =
                      IF IsSome(report_output)
                      THEN Append(report_paths,
                                  [path |-> report_path(Unwrap(report_output), timestamp),
                                   stamp |-> timestamp, written |-> report_ok])
                      ELSE report_paths
    /\ clears' = clears + 1
    /\ round_start' = << Len(consumed_left), Len(consumed_right) >>
    /\ last_round' = Some([left |-> left_buffer.states, right |-> right_buffer.states])
    /\ UNCHANGED << cfg_vars, chan_vars, rounds_completed, reporter, consumed_left,
                    consumed_right, last_side, buf_vars, src_vars, aux_vars >>

\* The arm's tail when the push completes no round: the waiting branch of
\* check_round_completion, or check_alignment.
StepNoRound ==
    /\ pc = "pushed"
    /\ ~(RoundMode /\ left_round_complete /\ right_round_complete)
    /\ out' = IF RoundMode
              THEN WaitRound(left_buffer, right_buffer, left_round_complete,
                             right_round_complete, left_round_complete,
                             right_round_complete, rounds_completed).out
              ELSE check_alignment(left_buffer, right_buffer, mode)
    /\ pc' = "loop"
    /\ UNCHANGED << cfg_vars, chan_vars, left_buffer, right_buffer, left_round_complete,
                    right_round_complete, rounds_completed, reporter, result, hist_vars,
                    buf_vars, src_vars, aux_vars >>

\* A source task sends while the loop is inside an arm.
MidSendLeft ==
    /\ pc \in {"pushed", "counted"}
    /\ left_tx_open
    /\ Len(left_rx) < ChannelCapacity
    /\ Len(consumed_left) + Len(left_rx) < MaxEmit
    /\ \E t \in TypeLeaves :
        left_rx' = Append(left_rx, NewEvent(t, Len(consumed_left) + Len(left_rx)))
    /\ UNCHANGED << cfg_vars, right_rx, left_tx_open, right_tx_open, loop_vars, hist_vars,
                    buf_vars, src_vars, aux_vars >>

MidSendRight ==
    /\ pc \in {"pushed", "counted"}
    /\ right_tx_open
    /\ Len(right_rx) < ChannelCapacity
    /\ Len(consumed_right) + Len(right_rx) < MaxEmit
    /\ \E t \in TypeLeaves :
        right_rx' = Append(right_rx, NewEvent(t, Len(consumed_right) + Len(right_rx)))
    /\ UNCHANGED << cfg_vars, left_rx, left_tx_open, right_tx_open, loop_vars, hist_vars,
                    buf_vars, src_vars, aux_vars >>

NextSteps ==
    \/ EmitLeft \/ EmitRight \/ MidSendLeft \/ MidSendRight
    \/ StepPushLeft \/ StepPushRight
    \/ StepCount \/ StepComplete \/ StepNoRound
    \/ CtrlC

SpecSteps == Init /\ [][NextSteps]_vars
\* ------------------------------------- a round longer than the buffers
\* The program of Spec in round mode, no report and no round limit, over a
\* left source that sends the signal first and a keyed non-signal event ever
\* after, MaxOverflow events in all, and a right source that sends the
\* signal only; each source sends when its channel is empty.
InitOverflow ==
    /\ Init
    /\ round_end_signal = Some(Signal) /\ report_output = None
    /\ max_rounds = None /\ ~pretty_diff

OverflowSendLeft ==
    /\ pc = "loop"
    /\ left_tx_open
    /\ left_rx = << >>
    /\ Len(consumed_left) < MaxOverflow
    /\ left_rx' = << NewEvent(IF consumed_left = << >> THEN Signal ELSE "X",
                              Len(consumed_left)) >>
    /\ UNCHANGED << cfg_vars, right_rx, left_tx_open, right_tx_open, loop_vars, hist_vars,
                    buf_vars, src_vars, aux_vars >>

OverflowSendRight ==
    /\ pc = "loop"
    /\ right_tx_open
    /\ right_rx = << >>
    /\ Len(consumed_right) < MaxEmit
    /\ right_rx' = << NewEvent(Signal, Len(consumed_right)) >>
    /\ UNCHANGED << cfg_vars, left_rx, left_tx_open, right_tx_open, loop_vars, hist_vars,
                    buf_vars, src_vars, aux_vars >>

NextOverflow ==
    \/ OverflowSendLeft \/ OverflowSendRight
    \/ RecvLeft \/ RecvRight
    \/ CtrlC

SpecOverflow == InitOverflow /\ [][NextOverflow]_vars
\* ----------------------------- a run longer than the buffers, with a report
\* The sources of SpecOverflow, whose tasks may end and drop their senders,
\* under an engine in round mode that writes reports and is not interrupted.
InitOverflowEnd ==
    /\ Init
    /\ round_end_signal = Some(Signal) /\ report_output = Some(ReportPath)
    /\ max_rounds \in {None, Some(1)} /\ ~pretty_diff /\ ~visual

NextOverflowEnd ==
    \/ OverflowSendLeft \/ OverflowSendRight \/ CloseLeft \/ CloseRight
    \/ RecvLeft \/ RecvRight \/ RecvLeftNone \/ RecvRightNone

SpecOverflowEnd == InitOverflowEnd /\ [][NextOverflowEnd]_vars
\* --------------------------------------------- a StateBuffer on its own
\* StateBuffer::new(max_size) followed by any pushes and clears.
BufferPush ==
    /\ Len(pushed) < MaxPush
    /\ \E t \in TypeLeaves :
        LET data == NewEvent(t, Len(pushed))
            state == StateNew(data, extract_key(data))
        IN  /\ buf' = BufPush(buf, state)
            /\ pushed' = Append(pushed, state)
    /\ UNCHANGED << cfg_vars, chan_vars, loop_vars, hist_vars, src_vars, aux_vars >>

BufferClear ==
    /\ pushed # << >>
    /\ buf' = BufClear(buf)
    /\ pushed' = << >>
    /\ UNCHANGED << cfg_vars, chan_vars, loop_vars, hist_vars, src_vars, aux_vars >>

InitBuffer ==
    /\ round_end_signal = None /\ visual = FALSE /\ pretty_diff = FALSE
    /\ report_output = None /\ max_rounds = None
    /\ left_rx = << >> /\ right_rx = << >>
    /\ left_tx_open = TRUE /\ right_tx_open = TRUE
    /\ left_buffer = StateBufferNew(BufferCapacity)
    /\ right_buffer = StateBufferNew(BufferCapacity)
    /\ left_round_complete = FALSE /\ right_round_complete = FALSE
    /\ rounds_completed = 0
    /\ reporter = None
    /\ pc = "loop" /\ result = None
    /\ out = << >>
    /\ consumed_left = << >> /\ consumed_right = << >>
    /\ last_side = "none" /\ clears = 0
    /\ round_start = << 0, 0 >> /\ last_round = None /\ report_paths = << >>
    /\ \E n \in 0..MaxCap : buf = StateBufferNew(n)
    /\ pushed = << >>
    /\ SourceIdle /\ AuxIdle

NextBuffer == BufferPush \/ BufferClear

SpecBuffer == InitBuffer /\ [][NextBuffer]_vars

\* ------------------------------------- one round check on its own
\* check_round_completion as a select! arm calls it when the push has left
\* both flags set: the buffers hold any round the two sides can have sent (the
\* signal on both sides, last on the side that was pushed), over one more key
\* value than the engine's runs use.
CompareLeaves == {"X", "Y", Signal, Null}

SeqsUpTo(S, n) == UNION {[1..k -> S] : k \in 0..n}

RoundOf(types) ==
    [StateBufferNew(BufferCapacity) EXCEPT
        !.states = [i \in 1..Len(types) |->
                       StateNew([type |-> types[i], seq |-> i],
                                extract_key([type |-> types[i], seq |-> i]))]]

HasSignal(types) == \E i \in 1..Len(types) : types[i] = Signal
EndsWithSignal(types) == types # << >> /\ types[Len(types)] = Signal

InitCompare ==
    /\ round_end_signal = Some(Signal)
    /\ visual \in BOOLEAN /\ pretty_diff \in BOOLEAN
    /\ report_output = None /\ max_rounds = None
    /\ left_rx = << >> /\ right_rx = << >>
    /\ left_tx_open = TRUE /\ right_tx_open = TRUE
    /\ \E lt \in SeqsUpTo(CompareLeaves, MaxRoundLen), rt \in SeqsUpTo(CompareLeaves, MaxRoundLen) :
          /\ HasSignal(lt) /\ HasSignal(rt)
          /\ EndsWithSignal(lt) \/ EndsWithSignal(rt)
          /\ left_buffer = RoundOf(lt)
          /\ right_buffer = RoundOf(rt)
    /\ left_round_complete = TRUE /\ right_round_complete = TRUE
    /\ rounds_completed = 0
    /\ reporter = None
    /\ pc = "check_round" /\ result = None
    /\ out = << >>
    /\ consumed_left = << >> /\ consumed_right = << >>
    /\ last_side = "none" /\ clears = 0
    /\ round_start = << 0, 0 >> /\ last_round = None /\ report_paths = << >>
    /\ buf = StateBufferNew(0) /\ pushed = << >>
    /\ SourceIdle /\ AuxIdle

\* The call at aligned.rs 163-172 / 235-244 with both flags set.
RoundCheck ==
    /\ pc = "check_round"
    /\ \E report_ok \in BOOLEAN :
          AfterPush(left_buffer, right_buffer, left_round_complete, right_round_complete,
                    report_ok)
    /\ Record(left_buffer, right_buffer, 0, 0)
    /\ UNCHANGED << cfg_vars, chan_vars, reporter, consumed_left, consumed_right, last_side,
                    buf_vars, src_vars, aux_vars >>

NextCompare == RoundCheck

SpecCompare == InitCompare /\ [][NextCompare]_vars

\* --------------------------------- port/parser.rs: JsonPathExtractor
\* A path is the string given to --align-by, as a sequence of tokens: field
\* names and the separator. A field name is the sequence of the tokens
\* between two separators (empty between two adjacent separators), and an
\* object's members are keyed by such names.
Dot == "."
Names == {"message", "phase", "missing", "type"}
PathTokens == Names \cup {Dot}

\* serde_json::Value
JNull == [t |-> "null"]
JBool(b) == [t |-> "bool", b |-> b]
JNumber(n) == [t |-> "number", n |-> n]
JString(s) == [t |-> "string", s |-> s]
JArray(items) == [t |-> "array", items |-> items]
JObject(members) == [t |-> "object", members |-> members]

\* The events the extractor is run on.
ExtractStates ==
    { JObject(<< "message" >> :> JObject(<< "phase" >> :> JString("A"))),
      JObject(<< "type" >> :> JNumber(42)),
      JObject(<< "type" >> :> JBool(TRUE) @@ << "phase" >> :> JBool(FALSE)),
      JObject(<< "message" >> :> JNull @@ << "type" >> :> JArray(<< JString("A") >>)),
      JObject(<< "message" >> :> JObject(<< "phase" >> :> JObject(<< "type" >> :> JString("B")))
              @@ << >> :> JString("C")),
      JObject(<< "message" >> :> JString("D") @@ << "phase" >> :> JNumber(0 - 7)),
      JString("A"),
      JArray(<< JObject(<< "type" >> :> JString("A")) >>) }

\* str::split('.'): the pieces between the separators, empty ones included;
\* a string without separator is one piece.
RECURSIVE split(_)
split(path) ==
    LET dots == {i \in 1..Len(path) : path[i] = Dot}
    IN  IF dots = {} THEN << path >>
        ELSE LET i == CHOOSE d \in dots : \A e \in dots : d <= e
             IN  << SubSeq(path, 1, i - 1) >> \o split(SubSeq(path, i + 1, Len(path)))

\* JsonPathExtractor::new: field_path
JsonPathExtractorNew(path) == split(path)

\* serde_json's Value::get with a string index: the member of an object,
\* nothing for a missing member and for every value that is not an object.
get(current, field) ==
    IF current.t = "object" /\ field \in DOMAIN current.members
    THEN Some(current.members[field])
    ELSE None

\* `for field in &self.field_path { current = current.get(field)?; }`
RECURSIVE walk(_, _)
walk(current, fields) ==
    IF fields = << >> THEN Some(current)
    ELSE LET next == get(current, Head(fields))
         IN  IF IsSome(next) THEN walk(Unwrap(next), Tail(fields)) ELSE None

\* The final match: String, Number and Bool give their to_string(), every
\* other value gives None.
scalar_key_any(value) ==
    CASE value.t = "string" -> Some(value.s)
      [] value.t = "number" -> Some(ToString(value.n))
      [] value.t = "bool" -> Some(IF value.b THEN "true" ELSE "false")
      [] value.t = "null" -> Some("null")
      [] OTHER -> None
scalar_key(value) ==
    CASE value.t = "string" -> Some(value.s)
      [] value.t = "number" -> Some(ToString(value.n))
      [] value.t = "bool" -> Some(IF value.b THEN "true" ELSE "false")
      [] OTHER -> None

\* JsonPathExtractor::extract_key
path_extract_key(fields, state) ==
    LET current == walk(state, fields)
    IN  IF IsSome(current) THEN scalar_key(Unwrap(current)) ELSE None

\* An extractor built from one path and called on one event, any number of
\* times.
ExtractorNew ==
    /\ IsSome(ex_state) /\ field_path = None
    /\ field_path' = Some(JsonPathExtractorNew(ex_path))
    /\ UNCHANGED << cfg_vars, chan_vars, loop_vars, hist_vars, buf_vars, src_vars,
                    ex_path, ex_state, ex_keys, raw_vars, main_vars >>

ExtractKey ==
    /\ IsSome(field_path) /\ Len(ex_keys) < MaxExtract
    /\ ex_keys' = Append(ex_keys, path_extract_key(Unwrap(field_path), Unwrap(ex_state)))
    /\ UNCHANGED << cfg_vars, chan_vars, loop_vars, hist_vars, buf_vars, src_vars,
                    ex_path, ex_state, field_path, raw_vars, main_vars >>

\* No engine, buffer or source runs.
EngineIdle ==
    /\ round_end_signal = None /\ visual = FALSE /\ pretty_diff = FALSE
    /\ report_output = None /\ max_rounds = None
    /\ left_rx = << >> /\ right_rx = << >>
    /\ left_tx_open = TRUE /\ right_tx_open = TRUE
    /\ left_buffer = StateBufferNew(BufferCapacity)
    /\ right_buffer = StateBufferNew(BufferCapacity)
    /\ left_round_complete = FALSE /\ right_round_complete = FALSE
    /\ rounds_completed = 0
    /\ reporter = None
    /\ pc = "loop" /\ result = None
    /\ out = << >>
    /\ consumed_left = << >> /\ consumed_right = << >>
    /\ last_side = "none" /\ clears = 0
    /\ round_start = << 0, 0 >> /\ last_round = None /\ report_paths = << >>
    /\ buf = StateBufferNew(0) /\ pushed = << >>
    /\ SourceIdle

InitExtract ==
    /\ EngineIdle
    /\ ex_path \in SeqsUpTo(PathTokens, MaxPathLen)
    /\ ex_state \in {Some(s) : s \in ExtractStates}
    /\ field_path = None /\ ex_keys = << >>
    /\ left_state = None /\ right_state = None
    /\ command = "none" /\ align_by = FALSE /\ main_pc = "none" /\ tracker = "none"
    /\ exit_code = None /\ stderr = << >>

NextExtract == ExtractorNew \/ ExtractKey

SpecExtract == InitExtract /\ [][NextExtract]_vars
\* ---------------------------------------------------- service/tracker.rs
\* What Tracker::start does after storing a received state (tracker.rs
\* 33-37, 46-50): one print_diff of the two stored values when both sides have
\* one, else the log line that says which side is waited for.
raw_update_eager(l, r, side) ==
    << [kind |-> "raw_diff",
        left |-> IF IsSome(l) THEN Unwrap(l) ELSE NewEvent(Null, 0),
        right |-> IF IsSome(r) THEN Unwrap(r) ELSE NewEvent(Null, 0)] >>
raw_update(l, r, side) ==
    IF IsSome(l) /\ IsSome(r)
    THEN << [kind |-> "raw_diff", left |-> Unwrap(l), right |-> Unwrap(r)] >>
    ELSE << [kind |-> "raw_waiting", updated |-> side] >>

\* select! arm `msg = left_rx.recv()` with Some(state) (tracker.rs 29-38).
RawRecvLeft ==
    /\ tracker = "raw" /\ pc = "loop"
    /\ left_rx # << >>
    /\ left_rx' = Tail(left_rx)
    /\ left_state' = Some(Head(left_rx))
    /\ out' = raw_update(Some(Head(left_rx)), right_state, "left")
    /\ consumed_left' = Append(consumed_left, Head(left_rx))
    /\ last_side' = "left"
    /\ UNCHANGED << cfg_vars, right_rx, left_tx_open, right_tx_open, left_buffer, right_buffer,
                    left_round_complete, right_round_complete, rounds_completed, reporter,
                    pc, result, consumed_right, clears, round_start, last_round, report_paths,
                    buf_vars, src_vars, ext_vars, right_state, main_vars >>

\* select! arm `msg = right_rx.recv()` with Some(state) (tracker.rs 42-51).
RawRecvRight ==
    /\ tracker = "raw" /\ pc = "loop"
    /\ right_rx # << >>
    /\ right_rx' = Tail(right_rx)
    /\ right_state' = Some(Head(right_rx))
    /\ out' = raw_update(left_state, Some(Head(right_rx)), "right")
    /\ consumed_right' = Append(consumed_right, Head(right_rx))
    /\ last_side' = "right"
    /\ UNCHANGED << cfg_vars, left_rx, left_tx_open, right_tx_open, left_buffer, right_buffer,
                    left_round_complete, right_round_complete, rounds_completed, reporter,
                    pc, result, consumed_left, clears, round_start, last_round, report_paths,
                    buf_vars, src_vars, ext_vars, left_state, main_vars >>

\* `None => break` and the `Ok(())` after the loop (tracker.rs 39, 52, 57).
RawBreakErr ==
    /\ pc' = "closed"
    /\ result' = Some("Err")
    /\ out' = << >>
    /\ UNCHANGED << cfg_vars, chan_vars, left_buffer, right_buffer, left_round_complete,
                    right_round_complete, rounds_completed, reporter, hist_vars, buf_vars,
                    src_vars, aux_vars >>
RawBreak ==
    /\ pc' = "closed"
    /\ result' = Some("Ok")
    /\ out' = << >>
    /\ UNCHANGED << cfg_vars, chan_vars, left_buffer, right_buffer, left_round_complete,
                    right_round_complete, rounds_completed, reporter, hist_vars, buf_vars,
                    src_vars, aux_vars >>

RawRecvLeftNone ==
    /\ tracker = "raw" /\ pc = "loop"
    /\ left_rx = << >> /\ ~left_tx_open
    /\ RawBreak

RawRecvRightNone ==
    /\ tracker = "raw" /\ pc = "loop"
    /\ right_rx = << >> /\ ~right_tx_open
    /\ RawBreak

\* Tracker::start over any two sources, under run_tracker's select! with
\* ctrl_c (main.rs 109-117).
InitRaw ==
    /\ round_end_signal = None /\ visual = FALSE /\ pretty_diff \in BOOLEAN
    /\ report_output = None /\ max_rounds = None
    /\ left_rx = << >> /\ right_rx = << >>
    /\ left_tx_open = TRUE /\ right_tx_open = TRUE
    /\ left_buffer = StateBufferNew(BufferCapacity)
    /\ right_buffer = StateBufferNew(BufferCapacity)
    /\ left_round_complete = FALSE /\ right_round_complete = FALSE
    /\ rounds_completed = 0
    /\ reporter = None
    /\ pc = "loop" /\ result = None
    /\ out = << >>
    /\ consumed_left = << >> /\ consumed_right = << >>
    /\ last_side = "none" /\ clears = 0
    /\ round_start = << 0, 0 >> /\ last_round = None /\ report_paths = << >>
    /\ buf = StateBufferNew(0) /\ pushed = << >>
    /\ SourceIdle
    /\ ex_path = << >> /\ ex_state = None /\ field_path = None /\ ex_keys = << >>
    /\ left_state = None /\ right_state = None
    /\ command = "none" /\ align_by = FALSE /\ main_pc = "none" /\ tracker = "raw"
    /\ exit_code = None /\ stderr = << >>

NextRaw ==
    \/ SendLeft \/ SendRight \/ CloseLeft \/ CloseRight
    \/ RawRecvLeft \/ RawRecvRight \/ RawRecvLeftNone \/ RawRecvRightNone
    \/ CtrlC

SpecRaw == InitRaw /\ [][NextRaw]_vars
\* ------------------------------------------------------------- main.rs: main
\* The configuration variables hold the parsed arguments (max_rounds is
\* final_max_rounds, main.rs 170 and 240); pc = "init" until a tracker's
\* start() is called, which is where the sources are spawned (aligned.rs
\* 88-89, tracker.rs 21-22).
Commands == {"diff", "track", "example"}
ReportMessage == "error: --report requires --round-end to be set"

\* Commands::Track, and Commands::Example with Some(field), build an
\* AlignedTracker; Commands::Diff, and Commands::Example with None, a Tracker.
BuildsAligned == command = "track" \/ (command = "example" /\ align_by)
\* `report.is_some() && round_end.is_none()` (main.rs 159, 212)
ReportWithoutRoundEnd == IsSome(report_output) /\ ~IsSome(round_end_signal)

\* The validation fails: message, std::process::exit(1) (main.rs 159-167,
\* 212-224).
MainReject ==
    /\ main_pc = "parsed" /\ BuildsAligned /\ ReportWithoutRoundEnd
    /\ stderr' = Append(stderr, ReportMessage)
    /\ exit_code' = Some(1)
    /\ main_pc' = "exited"
    /\ UNCHANGED << cfg_vars, chan_vars, loop_vars, hist_vars, buf_vars, src_vars,
                    ext_vars, raw_vars, command, align_by, tracker >>

\* run_aligned_tracker(tracker): start() is polled, spawns both sources and
\* sets up its locals (main.rs 172-190, 226-246; aligned.rs 87-103).
MainRunAligned ==
    /\ main_pc = "parsed" /\ BuildsAligned /\ ~ReportWithoutRoundEnd
    /\ tracker' = "aligned"
    /\ main_pc' = "running"
    /\ pc' = "loop"
    /\ reporter' = IF IsSome(report_output) THEN Some(HtmlReporterNew) ELSE None
    /\ UNCHANGED << cfg_vars, chan_vars, left_buffer, right_buffer, left_round_complete,
                    right_round_complete, rounds_completed, result, out, hist_vars, buf_vars,
                    src_vars, ext_vars, raw_vars, command, align_by, exit_code, stderr >>

\* run_tracker(tracker) (main.rs 140-144, 248-251; tracker.rs 20-25).
MainRunRaw ==
    /\ main_pc = "parsed" /\ ~BuildsAligned
    /\ tracker' = "raw"
    /\ main_pc' = "running"
    /\ pc' = "loop"
    /\ UNCHANGED << cfg_vars, chan_vars, left_buffer, right_buffer, left_round_complete,
                    right_round_complete, rounds_completed, reporter, result, out, hist_vars,
                    buf_vars, src_vars, ext_vars, raw_vars, command, align_by, exit_code,
                    stderr >>

\* `if let Err(err) = result { eprintln!(..); std::process::exit(1); }`, else
\* main returns and the status is 0 (main.rs 255-259).
MainExit ==
    /\ main_pc = "running" /\ IsSome(result)
    /\ IF result = Some("Ok")
       THEN exit_code' = Some(0) /\ UNCHANGED stderr
       ELSE exit_code' = Some(1) /\ stderr' = Append(stderr, "error: tracker")
    /\ main_pc' = "exited"
    /\ UNCHANGED << cfg_vars, chan_vars, loop_vars, hist_vars, buf_vars, src_vars,
                    ext_vars, raw_vars, command, align_by, tracker >>

\* After Cli::parse(): every combination of the options each subcommand has.
InitMain ==
    /\ command \in Commands
    /\ align_by \in BOOLEAN
    /\ command = "track" => align_by
    /\ command = "diff" => ~align_by
    /\ round_end_signal \in {None, Some(Signal)}
    /\ visual \in BOOLEAN
    /\ pretty_diff \in BOOLEAN
    /\ report_output \in {None, Some(ReportPath)}
    /\ max_rounds \in MaxRoundsChoices
    /\ command = "diff" =>
          /\ round_end_signal = None /\ ~visual /\ report_output = None /\ max_rounds = None
    /\ left_rx = << >> /\ right_rx = << >>
    /\ left_tx_open = TRUE /\ right_tx_open = TRUE
    /\ left_buffer = StateBufferNew(BufferCapacity)
    /\ right_buffer = StateBufferNew(BufferCapacity)
    /\ left_round_complete = FALSE /\ right_round_complete = FALSE
    /\ rounds_completed = 0
    /\ reporter = None
    /\ pc = "init" /\ result = None
    /\ out = << >>
    /\ consumed_left = << >> /\ consumed_right = << >>
    /\ last_side = "none" /\ clears = 0
    /\ round_start = << 0, 0 >> /\ last_round = None /\ report_paths = << >>
    /\ buf = StateBufferNew(0) /\ pushed = << >>
    /\ SourceIdle
    /\ ex_path = << >> /\ ex_state = None /\ field_path = None /\ ex_keys = << >>
    /\ left_state = None /\ right_state = None
    /\ main_pc = "parsed" /\ tracker = "none"
    /\ exit_code = None /\ stderr = << >>

\* The tracker main built, running over any two sources.
RunAligned ==
    /\ tracker = "aligned"
    /\ (RecvLeft \/ RecvRight \/ RecvLeftNone \/ RecvRightNone)
RunRaw == RawRecvLeft \/ RawRecvRight \/ RawRecvLeftNone \/ RawRecvRightNone

NextMain ==
    \/ MainReject \/ MainRunAligned \/ MainRunRaw \/ MainExit
    \/ EmitLeft \/ EmitRight \/ CloseLeft \/ CloseRight
    \/ RunAligned \/ RunRaw
    \/ CtrlC

SpecMain == InitMain /\ [][NextMain]_vars
\* ------------------------------------------------ adapter/websocket.rs
\* backoff_secs is a u64 that only ever holds a power of two (1 at the start
\* and after a connection, then doubled): the model holds its base-2
\* logarithm, so that all 64 bits are covered.
BackoffOne == 0

\* `backoff_secs.min(30)`: 2^5 = 32 is the first power of two above 30.
DelaySecs(b) == IF b >= 5 THEN 30 ELSE 2 ^ b

\* `backoff_secs * 2` does not fit in a u64.
Overflows(b) == b + 1 >= U64Bits

\* `(backoff_secs * 2).max(2)` when the product fits: at least 2 = 2^1.
DoubledMaxTwo(b) == IF b + 1 < 1 THEN 1 ELSE b + 1

\* The same when the product wraps (overflow checks off): 2^63 * 2 = 0 in 64
\* bits, and 0.max(2) = 2 = 2^1.
WrappedMaxTwo == 1

\* What read.next() can yield (websocket.rs 37-67): `end` is None, the
\* stream's end; `frame` is any other message.
FrameKinds ==
    {"text_json", "text_invalid", "binary_json", "binary_non_utf8", "binary_invalid",
     "ping", "pong", "frame", "close", "error", "end"}
Malformed == {"text_invalid", "binary_non_utf8", "binary_invalid"}

OnFrameStrict(kind) ==
    IF kind \in {"text_json", "binary_json"} THEN "send"
    ELSE IF kind \in {"ping", "pong", "frame"} THEN "skip"
    ELSE "reconnect"
\* The match of websocket.rs 38-67: a payload that parses is sent, a
\* malformed one is logged and dropped, a close frame, a read error or the
\* stream's end leaves the read loop.
OnFrame(kind) ==
    IF kind \in {"text_json", "binary_json"} THEN "send"
    ELSE IF kind \in Malformed THEN "drop"
    ELSE IF kind \in {"ping", "pong", "frame"} THEN "skip"
    ELSE "reconnect"

src_hist == << taken, handed, frames_read, conn_frames, streak, delay, failed_sends >>

\* connect_async succeeded (websocket.rs 33-36).
WsConnectOk ==
    /\ src_kind = "websocket" /\ src_pc = "connect"
    /\ backoff_secs' = BackoffOne
    /\ src_pc' = "read"
    /\ streak' = 0 /\ conn_frames' = << >>
    /\ UNCHANGED << src_kind, src_msg, src_rx, rx_alive, taken, handed, frames_read, delay,
                    failed_sends >>

\* connect_async failed (websocket.rs 70-77): on to the delay and the sleep.
WsConnectErr ==
    /\ src_kind = "websocket" /\ src_pc = "connect"
    /\ src_pc' = "sleep"
    /\ delay' = DelaySecs(backoff_secs)
    /\ UNCHANGED << src_kind, backoff_secs, src_msg, src_rx, rx_alive, taken, handed,
                    frames_read, conn_frames, streak, failed_sends >>

\* One turn of `while let Some(next) = read.next().await` (websocket.rs 37-68).
WsRead ==
    /\ src_kind = "websocket" /\ src_pc = "read"
    /\ frames_read < MaxFrames
    /\ \E kind \in FrameKinds :
        /\ frames_read' = frames_read + 1
        /\ conn_frames' = Append(conn_frames, kind)
        /\ IF OnFrame(kind) = "send"
           THEN /\ src_msg' = Some(NewEvent("X", Len(handed)))
                /\ handed' = Append(handed, NewEvent("X", Len(handed)))
                /\ src_pc' = "send"
                /\ UNCHANGED delay
           ELSE IF OnFrame(kind) = "reconnect"
           THEN /\ src_pc' = "sleep"
                /\ delay' = DelaySecs(backoff_secs)
                /\ UNCHANGED << src_msg, handed >>
           ELSE UNCHANGED << src_pc, src_msg, handed, delay >>
    /\ UNCHANGED << src_kind, backoff_secs, src_rx, rx_alive, taken, streak, failed_sends >>

\* `let _ = tx.send(json).await` completes with Ok: there is room.
WsSendOk ==
    /\ src_kind = "websocket" /\ src_pc = "send"
    /\ rx_alive /\ Len(src_rx) < ChannelCapacity
    /\ src_rx' = Append(src_rx, Unwrap(src_msg))
    /\ src_msg' = None
    /\ src_pc' = "read"
    /\ UNCHANGED << src_kind, backoff_secs, rx_alive, src_hist >>

\* The same completes with Err, the receiver being gone; `let _ =` discards
\* the result and the read loop goes on.
WsSendErr ==
    /\ src_kind = "websocket" /\ src_pc = "send"
    /\ ~rx_alive
    /\ src_msg' = None
    /\ src_pc' = "read"
    /\ failed_sends' = failed_sends + 1
    /\ UNCHANGED << src_kind, backoff_secs, src_rx, rx_alive, taken, handed, frames_read,
                    conn_frames, streak, delay >>

\* The sleep ends (websocket.rs 77-78): backoff_secs is doubled and the loop
\* connects again. When the product overflows, a build without overflow
\* checks wraps it and a build with them panics, which ends the task and
\* drops the sender.
WsWake ==
    /\ src_kind = "websocket" /\ src_pc = "sleep"
    /\ streak < MaxStreak
    /\ streak' = streak + 1
    /\ \/ /\ ~Overflows(backoff_secs)
          /\ backoff_secs' = DoubledMaxTwo(backoff_secs)
          /\ src_pc' = "connect"
       \/ /\ Overflows(backoff_secs)
          /\ backoff_secs' = WrappedMaxTwo
          /\ src_pc' = "connect"
       \/ /\ Overflows(backoff_secs)
          /\ backoff_secs' = backoff_secs
          /\ src_pc' = "panicked"
    /\ UNCHANGED << src_kind, src_msg, src_rx, rx_alive, taken, handed, frames_read,
                    conn_frames, delay, failed_sends >>

\* --------------------------------------------------- adapter/stream.rs
\* RandomStream's task (stream.rs 73-80): `tx.send(event).await` completes
\* with Ok, and the task sleeps for its interval.
RsSendOk ==
    /\ src_kind = "random" /\ src_pc = "send"
    /\ rx_alive /\ Len(src_rx) < ChannelCapacity
    /\ src_rx' = Append(src_rx, Unwrap(src_msg))
    /\ src_msg' = None
    /\ src_pc' = "sleep"
    /\ UNCHANGED << src_kind, backoff_secs, rx_alive, src_hist >>

\* The send completes with Err: `is_err()` breaks the loop and the task ends.
RsSendErr ==
    /\ src_kind = "random" /\ src_pc = "send"
    /\ ~rx_alive
    /\ src_msg' = None
    /\ src_pc' = "done"
    /\ failed_sends' = failed_sends + 1
    /\ UNCHANGED << src_kind, backoff_secs, src_rx, rx_alive, taken, handed, frames_read,
                    conn_frames, streak, delay >>

\* The sleep ends: the next event is generated and handed to send().
RsWake ==
    /\ src_kind = "random" /\ src_pc = "sleep"
    /\ Len(handed) < MaxFrames
    /\ src_msg' = Some(NewEvent("X", Len(handed)))
    /\ handed' = Append(handed, NewEvent("X", Len(handed)))
    /\ src_pc' = "send"
    /\ UNCHANGED << src_kind, backoff_secs, src_rx, rx_alive, taken, frames_read,
                    conn_frames, streak, delay, failed_sends >>

\* ------------------------------------------- the receiving end of a source
\* The merge loop's recv() takes the oldest queued value.
RxTake ==
    /\ rx_alive /\ src_rx # << >>
    /\ taken' = Append(taken, Head(src_rx))
    /\ src_rx' = Tail(src_rx)
    /\ UNCHANGED << src_kind, src_pc, backoff_secs, src_msg, rx_alive, handed, frames_read,
                    conn_frames, streak, delay, failed_sends >>

\* start() returns or its future is dropped: the receiver is dropped, and
\* with it what was still queued.
RxDrop ==
    /\ rx_alive
    /\ rx_alive' = FALSE
    /\ src_rx' = << >>
    /\ UNCHANGED << src_kind, src_pc, backoff_secs, src_msg, src_hist >>

\* spawn(): the channel is created and the task started (websocket.rs 26-31,
\* stream.rs 64-74); the engine is not modelled here.
InitSource ==
    /\ round_end_signal = None /\ visual = FALSE /\ pretty_diff = FALSE
    /\ report_output = None /\ max_rounds = None
    /\ left_rx = << >> /\ right_rx = << >>
    /\ left_tx_open = TRUE /\ right_tx_open = TRUE
    /\ left_buffer = StateBufferNew(BufferCapacity)
    /\ right_buffer = StateBufferNew(BufferCapacity)
    /\ left_round_complete = FALSE /\ right_round_complete = FALSE
    /\ rounds_completed = 0
    /\ reporter = None
    /\ pc = "loop" /\ result = None
    /\ out = << >>
    /\ consumed_left = << >> /\ consumed_right = << >>
    /\ last_side = "none" /\ clears = 0
    /\ round_start = << 0, 0 >> /\ last_round = None /\ report_paths = << >>
    /\ buf = StateBufferNew(0) /\ pushed = << >>
    /\ AuxIdle
    /\ src_kind \in {"websocket", "random"}
    /\ src_pc = IF src_kind = "websocket" THEN "connect" ELSE "send"
    /\ backoff_secs = BackoffOne
    /\ src_msg = IF src_kind = "websocket" THEN None ELSE Some(NewEvent("X", 0))
    /\ handed = IF src_kind = "websocket" THEN << >> ELSE << NewEvent("X", 0) >>
    /\ src_rx = << >> /\ rx_alive = TRUE
    /\ taken = << >> /\ frames_read = 0 /\ conn_frames = << >>
    /\ streak = 0 /\ delay = 0 /\ failed_sends = 0

SourceStep ==
    \/ WsConnectOk \/ WsConnectErr \/ WsRead \/ WsSendOk \/ WsSendErr \/ WsWake
    \/ RsSendOk \/ RsSendErr \/ RsWake
    \/ RxTake \/ RxDrop

NextSource ==
    SourceStep /\ UNCHANGED << cfg_vars, chan_vars, loop_vars, hist_vars, buf_vars, aux_vars >>

SpecSource == InitSource /\ [][NextSource]_vars

\* ====================================================================
\* Properties
\* ====================================================================
TypesOf(events) == [i \in 1..Len(events) |-> events[i].type]
StatesOf(events) == [i \in 1..Len(events) |-> StateNew(events[i], extract_key(events[i]))]
IsPrefix(a, b) == Len(a) <= Len(b) /\ a = SubSeq(b, 1, Len(a))
Count(seq, Test(_)) == Len(SelectSeq(seq, Test))
Min2(a, b) == IF a <= b THEN a ELSE b

\* The loop is where its last turn left it: out is what that turn emitted.
AfterTurn == pc \in {"loop", "exit_max"} /\ last_side # "none"
\* The last turn closed a round: no event was consumed since the boundary.
RoundJustCompleted ==
    /\ AfterTurn
    /\ rounds_completed > 0
    /\ round_start = << Len(consumed_left), Len(consumed_right) >>

\* What a round's comparison showed, in either rendering: the key-based
\* cross-comparison's records, or the rows of the Visual round screen.
VisualRows == IF out # << >> /\ out[1].kind = "visual_round" THEN out[1].rows ELSE << >>
IsDiffOnX(r) == r.kind = "diff" /\ r.key = "X" /\ r.left.type = "X" /\ r.right.type = "X"
IsRowMatchOnX(row) == row.status = "ok" /\ row.left_key = Some("X") /\ row.right_key = Some("X")
IsMissingWarning(r) == r.kind \in {"missing_in_right", "only_in_right"}
IsRowWarning(row) == row.status \in {"MISSING_RIGHT", "MISSING_LEFT", "MISMATCH"}
MatchesOnX == Count(out, IsDiffOnX) + Count(VisualRows, IsRowMatchOnX)
MissingWarnings == Count(out, IsMissingWarning) + Count(VisualRows, IsRowWarning)

\* --- C1 -------------------------------------------------------------
ScenarioXEnd ==
    /\ round_end_signal = Some(Signal)
    /\ IsPrefix(TypesOf(consumed_left), << "X", Signal >>)
    /\ IsPrefix(TypesOf(consumed_right), << "X", Signal >>)
ScenarioXEndDone == ScenarioXEnd /\ Len(consumed_left) = 2 /\ Len(consumed_right) = 2

\* C1: with signal END, left [X, END] and right [X, END], under every
\* interleaving no round completes before all four events are consumed, and
\* once they are the round counter is 1, both buffers are empty and the
\* completing turn has reported one match on X (left X against right X) and
\* no missing-key warning.
C1_RoundXEnd ==
    ScenarioXEnd =>
        IF ScenarioXEndDone
        THEN /\ rounds_completed = 1
             /\ clears = 1
             /\ left_buffer.states = << >> /\ right_buffer.states = << >>
             /\ AfterTurn => (MatchesOnX = 1 /\ MissingWarnings = 0)
        ELSE rounds_completed = 0

\* All four events consumed, the left END last, and the comparison emitted.
C1_Witness ==
    /\ ScenarioXEndDone /\ AfterTurn /\ last_side = "left"
    /\ rounds_completed = 1 /\ MatchesOnX = 1

\* --- C2 -------------------------------------------------------------
\* C2: wherever the merge loop waits for the next message (and wherever the
\* run has ended) the two completion flags are not both true.
C2_FlagsNeverBothSet == ~(left_round_complete /\ right_round_complete)

\* A push has just set the second flag and the same turn closed the round.
C2_Witness ==
    /\ RoundJustCompleted /\ pc = "loop"
    /\ consumed_left[Len(consumed_left)].type = Signal
    /\ consumed_right[Len(consumed_right)].type = Signal

\* --- C3 -------------------------------------------------------------
\* C3: with a round limit M >= 1 the counter never passes M; the turn that
\* completes round M returns Ok from start(), and nothing is consumed after
\* it: the run stays as that turn left it, with both buffers empty, whatever
\* is still queued on the channels.
C3_MaxRounds ==
    (IsSome(max_rounds) /\ Unwrap(max_rounds) >= 1) =>
        /\ rounds_completed <= Unwrap(max_rounds)
        /\ rounds_completed = Unwrap(max_rounds) <=> pc = "exit_max"
        /\ pc = "exit_max" => /\ result = Some("Ok")
                              /\ RoundJustCompleted
                              /\ left_buffer.states = << >> /\ right_buffer.states = << >>

\* The limit was reached and start() returned while a source had already
\* queued a further event, which is never consumed.
C3_Witness ==
    /\ IsSome(max_rounds) /\ Unwrap(max_rounds) >= 1
    /\ rounds_completed = Unwrap(max_rounds) /\ pc = "exit_max"
    /\ right_rx # << >>

\* --- C4 -------------------------------------------------------------
IsRoundOutput(r) ==
    r.kind \in {"round_complete", "visual_round", "diff", "missing_in_right", "only_in_right",
                "round_report", "final_report"}

\* C4: Ctrl-C while the loop awaits the next message ends the run at once with
\* Ok: it completes no round, leaves the counter, the flags and the buffers
\* as they were (in particular with left-complete set and right-complete
\* not), and emits no round-complete or partial-round report.
C4_CtrlC ==
    [][(pc = "loop" /\ pc' = "ctrl_c") =>
          /\ result' = Some("Ok")
          /\ UNCHANGED << rounds_completed, clears, left_round_complete, right_round_complete,
                          left_buffer, right_buffer, consumed_left, consumed_right >>
          /\ Count(out', IsRoundOutput) = 0]_vars

C4_Witness ==
    pc = "ctrl_c" /\ left_round_complete /\ ~right_round_complete /\ result = Some("Ok")

\* --- C5 -------------------------------------------------------------
RECURSIVE MatchUnmatched(_, _, _, _)
\* The matching rule C5 states: left states in order from index i, each keyed
\* one paired with the earliest right state of its key not in `used`.
MatchUnmatched(left_states, right_states, i, used) ==
    IF i > Len(left_states) THEN << >>
    ELSE IF ~IsSome(left_states[i].alignment_key)
    THEN MatchUnmatched(left_states, right_states, i + 1, used)
    ELSE LET left_key == Unwrap(left_states[i].alignment_key)
             S == {j \in 1..Len(right_states) \ used :
                      right_states[j].alignment_key = Some(left_key)}
             j == IF S = {} THEN 0 ELSE CHOOSE m \in S : \A k \in S : m <= k
         IN  IF j # 0
             THEN << [kind |-> "diff", key |-> left_key, index |-> i,
                      left |-> left_states[i].data, right |-> right_states[j].data] >>
                  \o MatchUnmatched(left_states, right_states, i + 1, used \cup {j})
             ELSE << [kind |-> "missing_in_right", key |-> left_key, index |-> i] >>
                  \o MatchUnmatched(left_states, right_states, i + 1, used)

IsLeftResult(r) == r.kind \in {"diff", "missing_in_right"}

\* C5 as stated, for the modes that run the key-based cross-comparison: the
\* results a completed round reports for its left states are those of
\* earliest-unmatched matching, each left occurrence of a repeated key being
\* paired with a distinct right occurrence or reported missing on right.
C5_EarliestUnmatched ==
    (RoundJustCompleted /\ ~visual) =>
        SelectSeq(out, IsLeftResult)
            = MatchUnmatched(Unwrap(last_round).left, Unwrap(last_round).right, 1, {})

\* --- C6 -------------------------------------------------------------
ScenarioMissingX ==
    /\ round_end_signal = Some(Signal)
    /\ TypesOf(consumed_left) = << "X", Signal >>
    /\ TypesOf(consumed_right) = << Signal >>

IsXMissingOnRight(r) == r.kind = "missing_in_right" /\ r.key = "X"
IsRowXMissingOnRight(row) == row.status = "MISSING_RIGHT" /\ row.left_key = Some("X")
IsDiffOfX(r) == r.kind = "diff" /\ r.left.type = "X"
IsRowPairingX(row) == row.left_key = Some("X") /\ IsSome(row.right_key)

\* C6 as stated: with signal END, left [X, END] and right [END], the round
\* completes, the completing turn reports X missing on right exactly once and
\* pairs the left X state with no right state.
C6_MissingOnRight ==
    ScenarioMissingX =>
        /\ rounds_completed = 1
        /\ AfterTurn =>
            /\ Count(out, IsXMissingOnRight) + Count(VisualRows, IsRowXMissingOnRight) = 1
            /\ Count(out, IsDiffOfX) + Count(VisualRows, IsRowPairingX) = 0

\* --- C7 -------------------------------------------------------------
LastN(seq, n) == SubSeq(seq, Len(seq) - n + 1, Len(seq))

\* C7: after k pushes on a StateBuffer of capacity N with no clear between
\* them, the buffer holds exactly the last min(k, N) pushed states in arrival
\* order, and never more than N.
C7_BufferRetainsLastN ==
    /\ buf.states = LastN(pushed, Min2(Len(pushed), buf.max_size))
    /\ Len(buf.states) <= buf.max_size

\* More pushes than the capacity, so that entries were evicted from a buffer
\* that keeps at least two.
C7_Witness ==
    /\ buf.max_size = 2 /\ Len(pushed) = 4
    /\ buf.states = << pushed[3], pushed[4] >>

\* --- C8 -------------------------------------------------------------
ConsumedLeftStep == consumed_left' # consumed_left
ConsumedRightStep == consumed_right' # consumed_right
\* The flags as the push of this step leaves them, before the round check.
LeftFlagAfterPush ==
    left_round_complete \/ (ConsumedLeftStep /\ RoundMode /\ Head(left_rx).type = Signal)
RightFlagAfterPush ==
    right_round_complete \/ (ConsumedRightStep /\ RoundMode /\ Head(right_rx).type = Signal)

\* C8: a step moves the round counter by one exactly when it is a push that
\* leaves both completion flags set, and by nothing otherwise; the counter
\* moves together with the count of completed rounds (both buffers cleared),
\* so the two are equal throughout the run.
C8_CounterCountsRounds ==
    [][/\ rounds_completed' - rounds_completed = clears' - clears
       /\ rounds_completed' = rounds_completed
            + (IF (ConsumedLeftStep \/ ConsumedRightStep)
                   /\ LeftFlagAfterPush /\ RightFlagAfterPush
               THEN 1 ELSE 0)]_vars

C8_Witness == rounds_completed = 2 /\ clears = 2

\* --- C9 -------------------------------------------------------------
\* C9: right after a round completes both buffers are empty and both flags
\* false; at any time each buffer holds exactly the states consumed on its
\* side since the last round boundary, so a round compares nothing that was
\* received before the boundary that opened it.
C9_CleanAfterRound ==
    /\ (rounds_completed > 0
          /\ round_start = << Len(consumed_left), Len(consumed_right) >>) =>
            /\ left_buffer.states = << >> /\ right_buffer.states = << >>
            /\ ~left_round_complete /\ ~right_round_complete
    /\ left_buffer.states
         = StatesOf(SubSeq(consumed_left, round_start[1] + 1, Len(consumed_left)))
    /\ right_buffer.states
         = StatesOf(SubSeq(consumed_right, round_start[2] + 1, Len(consumed_right)))

\* A second round is under way: events consumed before the boundary are not
\* in the buffers.
C9_Witness ==
    /\ rounds_completed = 1 /\ pc = "loop"
    /\ Len(left_buffer.states) = 1 /\ Len(consumed_left) = 2
    /\ right_buffer.states = << >>

\* --- C10 ------------------------------------------------------------
IsContinuousOutput(r) == r.kind \in {"aligned", "out_of_sync", "waiting"}
\* The differ's record as check_alignment makes it: it follows an "aligned".
IsContinuousDiff(r) == r.kind = "diff" /\ "index" \notin DOMAIN r

\* C10: without a round-end signal both flags stay false, the counter stays
\* 0, the buffers are never cleared (each holds every state its side
\* consumed), no round output is emitted, a round limit never ends the run,
\* and each push is followed by the continuous-alignment check alone; with a
\* signal the continuous-alignment check never runs.
C10_RoundBookkeepingInert ==
    /\ round_end_signal = None =>
        /\ ~left_round_complete /\ ~right_round_complete
        /\ rounds_completed = 0 /\ clears = 0
        /\ pc # "exit_max"
        /\ left_buffer.states = StatesOf(consumed_left)
        /\ right_buffer.states = StatesOf(consumed_right)
        /\ Count(out, IsRoundOutput) = Count(out, IsContinuousDiff)
        /\ (pc = "loop" /\ last_side # "none") =>
              out = check_alignment(left_buffer, right_buffer, mode)
    /\ round_end_signal # None => Count(out, IsContinuousOutput) = 0

\* No signal, a limit of one round (--once), both sides have consumed the
\* would-be signal, and the continuous check reported them aligned.
C10_Witness ==
    /\ round_end_signal = None /\ max_rounds = Some(1) /\ pc = "loop"
    /\ TypesOf(consumed_left) = << Signal >> /\ TypesOf(consumed_right) = << Signal >>
    /\ Count(out, IsContinuousOutput) = 1

\* --- C11 ------------------------------------------------------------
\* Continuous mode, the left side consumed first and then the right side, one
\* event each: key "A" is "X"; key "B" is the other key value.
ScenarioLeftThenRight(left_type, right_type) ==
    /\ round_end_signal = None /\ pc = "loop" /\ last_side = "right"
    /\ TypesOf(consumed_left) = << left_type >>
    /\ TypesOf(consumed_right) = << right_type >>

IsDiffOfLatest(r) ==
    /\ IsContinuousDiff(r)
    /\ r.left = consumed_left[Len(consumed_left)]
    /\ r.right = consumed_right[Len(consumed_right)]
IsOutOfSync(r) == r.kind = "out_of_sync"

\* C11 as stated: in continuous mode, left "A" alone invokes no differ; left
\* "A" then right "A" invokes the differ exactly once, on the two latest
\* payloads; left "A" then right "B" invokes no differ and produces exactly
\* one out-of-sync report.
C11_ContinuousDiff ==
    /\ (round_end_signal = None /\ consumed_right = << >>) => Count(out, IsContinuousDiff) = 0
    /\ ScenarioLeftThenRight("X", "X") =>
          /\ Count(out, IsContinuousDiff) = 1
          /\ Count(out, IsDiffOfLatest) = 1
    /\ ScenarioLeftThenRight("X", Signal) =>
          /\ Count(out, IsContinuousDiff) = 0
          /\ Count(out, IsOutOfSync) = 1

\* --- C12 ------------------------------------------------------------
\* The key of the state a side consumed last, None before its first event.
LastKeyOf(consumed) == IF consumed = << >> THEN None ELSE extract_key(consumed[Len(consumed)])

\* The four cases of the continuous policy, from the two latest keys alone.
OutcomeOfKeys(left_key, right_key) ==
    IF IsSome(left_key) /\ IsSome(right_key)
    THEN IF Unwrap(left_key) = Unwrap(right_key)
         THEN << [kind |-> "aligned", key |-> Unwrap(left_key)] >>
         ELSE << [kind |-> "out_of_sync", left_key |-> Unwrap(left_key),
                  right_key |-> Unwrap(right_key)] >>
    ELSE IF IsSome(left_key)
    THEN << [kind |-> "waiting", ahead |-> "left", key |-> Unwrap(left_key)] >>
    ELSE IF IsSome(right_key)
    THEN << [kind |-> "waiting", ahead |-> "right", key |-> Unwrap(right_key)] >>
    ELSE << >>

\* What the last turn reported of the continuous policy's case.
OutcomeReported == SelectSeq(out, IsContinuousOutput)

ContinuousAfterPush == round_end_signal = None /\ pc = "loop" /\ last_side # "none"

IsAligned(r) == r.kind = "aligned"
\* The round a turn has just closed, as it was compared.
RoundLeft == Unwrap(last_round).left
RoundRight == Unwrap(last_round).right
\* Left state i of the closed round was reported as matched: a diff of it in
\* the key-based cross-comparison, or an ok row on the Visual round screen.
MatchedLeft(i) ==
    \/ \E n \in 1..Len(out) : out[n].kind = "diff" /\ out[n].index = i
    \/ i <= Len(VisualRows) /\ VisualRows[i].status = "ok"
\* Every pair reported as matched carries one key on both sides.
MatchesShareKey ==
    /\ \A n \in 1..Len(out) :
          out[n].kind = "diff" =>
              /\ out[n].left.type = out[n].right.type
              /\ out[n].left.type # Null
    /\ \A i \in 1..Len(VisualRows) :
          VisualRows[i].status = "ok" =>
              /\ IsSome(VisualRows[i].left_key)
              /\ VisualRows[i].left_key = VisualRows[i].right_key

\* C13 as stated: matching depends on key equality alone. Continuous policy
\* (in the modes that report it): the latest states are reported aligned
\* exactly when both carry a key and the keys are equal, whether or not the
\* payloads are. Round cross-comparison: a left state is reported matched
\* exactly when it carries a key that some right state of the round carries,
\* and every reported match pairs equal keys; states without a key are never
\* matched, identical payloads or not.
C13_KeyEqualityOnly ==
    /\ (ContinuousAfterPush /\ mode # "Visual") =>
          (Count(out, IsAligned) = 1
             <=> /\ IsSome(LastKeyOf(consumed_left))
                 /\ LastKeyOf(consumed_left) = LastKeyOf(consumed_right))
    /\ RoundJustCompleted =>
          /\ MatchesShareKey
          /\ \A i \in 1..Len(RoundLeft) :
                MatchedLeft(i)
                  <=> /\ IsSome(RoundLeft[i].alignment_key)
                      /\ \E j \in 1..Len(RoundRight) :
                            RoundRight[j].alignment_key = RoundLeft[i].alignment_key

\* --- C14 ------------------------------------------------------------
\* The control state of the merge loop.
ControlState ==
    << left_buffer, right_buffer, left_round_complete, right_round_complete,
       rounds_completed, pc, result >>

\* The control state after consuming `data` on `side`, written without any
\* reference to the output mode: it reads the control state, the event, the
\* round-end signal and the round limit only.
ControlAfter(side, data) ==
    LET state == StateNew(data, extract_key(data))
        is_signal == IsSome(round_end_signal) /\ data.type = Unwrap(round_end_signal)
        lb == IF side = "left" THEN BufPush(left_buffer, state) ELSE left_buffer
        rb == IF side = "right" THEN BufPush(right_buffer, state) ELSE right_buffer
        lf == left_round_complete \/ (side = "left" /\ is_signal)
        rf == right_round_complete \/ (side = "right" /\ is_signal)
        closes == IsSome(round_end_signal) /\ lf /\ rf
        n == IF closes THEN rounds_completed + 1 ELSE rounds_completed
        exits == closes /\ IsSome(max_rounds) /\ n >= Unwrap(max_rounds)
    IN  << IF closes THEN BufClear(lb) ELSE lb,
           IF closes THEN BufClear(rb) ELSE rb,
           IF closes THEN FALSE ELSE lf,
           IF closes THEN FALSE ELSE rf,
           n,
           IF exits THEN "exit_max" ELSE "loop",
           IF exits THEN Some("Ok") ELSE None >>

\* The pairs of payloads the closing turn reported as matched, in either
\* rendering, and the pairs key-based matching selects for the same round.
ReportedPairs ==
    {<< out[n].left, out[n].right >> : n \in {m \in 1..Len(out) : out[m].kind = "diff"}}
    \cup {<< RoundLeft[i].data, RoundRight[i].data >> :
              i \in {k \in 1..Len(VisualRows) : VisualRows[k].status = "ok"}}
KeyPairs ==
    {<< RoundLeft[i].data, RoundRight[j].data >> :
        << i, j >> \in {p \in (1..Len(RoundLeft)) \X (1..Len(RoundRight)) :
                          /\ IsSome(RoundLeft[p[1]].alignment_key)
                          /\ RoundRight[p[2]].alignment_key = RoundLeft[p[1]].alignment_key
                          /\ \A k \in 1..(p[2] - 1) :
                                RoundRight[k].alignment_key # RoundLeft[p[1]].alignment_key}}

\* C14 as stated: each consumed event moves the control state (buffers,
\* flags, round counter, termination) as a function of the control state,
\* the event and the signal and limit settings alone, so that two runs that
\* differ only in output mode pass through the same control states; and the
\* matching a closed round reports is the same key-based matching in every
\* output mode.
C14_ModeIndependent ==
    /\ [][/\ ConsumedLeftStep => ControlState' = ControlAfter("left", Head(left_rx))
          /\ ConsumedRightStep => ControlState' = ControlAfter("right", Head(right_rx))]_vars
    /\ [](RoundJustCompleted => ReportedPairs = KeyPairs)

\* --- C15 ------------------------------------------------------------
IsOnlyRight(r) == r.kind = "only_in_right"
IsCrossResult(r) == IsLeftResult(r) \/ IsOnlyRight(r)
Indices(seq) == [i \in 1..Len(seq) |-> i]
\* The keyed left states of the closed round, and its keyed right states
\* whose key no left state carries, each as indices in buffer order.
KeyedLeft == SelectSeq(Indices(RoundLeft), LAMBDA i : IsSome(RoundLeft[i].alignment_key))
RightOnly ==
    SelectSeq(Indices(RoundRight),
              LAMBDA j : /\ IsSome(RoundRight[j].alignment_key)
                         /\ \A i \in 1..Len(RoundLeft) :
                               RoundLeft[i].alignment_key # RoundRight[j].alignment_key)
\* A turn has just closed a round.
RoundClosed ==
    /\ pc \in {"loop", "exit_max"} /\ rounds_completed > 0
    /\ round_start = << Len(consumed_left), Len(consumed_right) >>

IsFinalReport(r) == r.kind = "final_report"

\* C16: the loop is left through a closed channel only by the turn that
\* receives None from one of the two channels, whatever the flags hold and
\* whether or not the other sender still lives; that turn changes no buffer,
\* flag or counter, start() returns Ok, and after the loop exactly one report
\* of every state the run consumed is generated when a report path is
\* configured, and none otherwise. A channel that is closed and drained
\* always offers that turn while the loop runs.
C16_StreamEnd ==
    /\ [][pc' = "closed" /\ pc # "closed" =>
            /\ pc = "loop"
            /\ (left_rx = << >> /\ ~left_tx_open) \/ (right_rx = << >> /\ ~right_tx_open)
            /\ result' = Some("Ok")
            /\ UNCHANGED << left_buffer, right_buffer, left_round_complete,
                            right_round_complete, rounds_completed, consumed_left,
                            consumed_right >>
            /\ Count(out', IsFinalReport) = (IF IsSome(report_output) THEN 1 ELSE 0)
            /\ \A n \in 1..Len(out') :
                  IsFinalReport(out'[n]) =>
                      /\ out'[n].left = StatesOf(consumed_left)
                      /\ out'[n].right = StatesOf(consumed_right)]_vars
    /\ [](pc = "closed" => result = Some("Ok"))
    /\ []((pc = "loop" /\ left_rx = << >> /\ ~left_tx_open) => ENABLED RecvLeftNone)
    /\ []((pc = "loop" /\ right_rx = << >> /\ ~right_tx_open) => ENABLED RecvRightNone)

\* The right channel closed while the left side had completed its round and
\* its sender still lived: the run ended with Ok and wrote its report.
C16_Witness ==
    /\ pc = "closed" /\ result = Some("Ok")
    /\ left_round_complete /\ ~right_round_complete
    /\ left_tx_open /\ ~right_tx_open
    /\ Count(out, IsFinalReport) = 1

\* --- C17 ------------------------------------------------------------
TaskEnded == src_pc \in {"done", "panicked"}

\* C17 as stated, for both sources: a send that fails because the receiver
\* is gone ends the producer's task; once a send has failed the task is not
\* connecting, reading, sending or sleeping any more.
C17_ProducerTerminates == failed_sends > 0 => TaskEnded

\* --- C18 ------------------------------------------------------------
\* min(2^k, 30)
DelayAfter(k) == IF k >= 5 THEN 30 ELSE 2 ^ k

\* C18 as stated: whenever the WebSocket task sleeps before reconnecting,
\* after k sleeps since the last successful connection (or since the start),
\* the delay is min(2^k, 30) seconds, for every k a 64-bit counter allows and
\* beyond; in particular it is 1 right after a successful connection and
\* never decreases within a streak.
C18_BackoffDelay ==
    (src_kind = "websocket" /\ src_pc = "sleep") => delay = DelayAfter(streak)

\* --- C19 ------------------------------------------------------------
\* C19 as stated: whatever connect failures, read errors and close frames
\* occur, the WebSocket task never ends (its sender is never dropped, so the
\* channel never closes), the channel carries nothing but the JSON values
\* handed to send(), and every failure is followed by a sleep and, after the
\* sleep, by a new connection attempt.
C19_TransportFailuresInvisible ==
    /\ [](src_kind = "websocket" => ~TaskEnded)
    /\ [](src_kind = "websocket" => IsPrefix(taken \o src_rx, handed))
    /\ [][(src_kind = "websocket" /\ src_pc = "sleep" /\ src_pc' # "sleep")
            => src_pc' = "connect"]_vars
    /\ [][(src_kind = "websocket" /\ src_pc = "connect" /\ src_pc' # "connect")
            => src_pc' \in {"read", "sleep"}]_vars

\* --- C20 ------------------------------------------------------------
FrameRead == frames_read' # frames_read
LastFrameRead == conn_frames'[Len(conn_frames')]

\* C20: reading a malformed payload (text that is not JSON, binary that is
\* not UTF-8, binary that is not JSON) puts nothing on the channel, hands
\* nothing to send(), and leaves the task reading on the same connection
\* with the channel open; a payload that parses is handed to send() as the
\* next value; and while the receiver exists the values received, queued and
\* being sent are exactly the values handed to send(), in order, so that the
\* valid payloads around a malformed one are delivered in order.
C20_MalformedDropped ==
    /\ [][(FrameRead /\ LastFrameRead \in Malformed) =>
            /\ UNCHANGED << src_rx, src_msg, handed, taken, rx_alive, backoff_secs, streak >>
            /\ src_pc' = "read"
            /\ conn_frames' = Append(conn_frames, LastFrameRead)]_vars
    /\ [][(FrameRead /\ LastFrameRead \in {"text_json", "binary_json"}) =>
            /\ Len(handed') = Len(handed) + 1
            /\ IsPrefix(handed, handed')
            /\ src_msg' = Some(handed'[Len(handed')])
            /\ src_pc' = "send"]_vars
    /\ []((src_kind = "websocket" /\ rx_alive) => taken \o src_rx \o src_msg = handed)

\* One connection carried a valid text payload, then a binary payload that
\* is not UTF-8, then a valid binary payload: both valid ones were received,
\* in order, and the task is still reading on that connection.
C20_Witness ==
    /\ src_kind = "websocket" /\ src_pc = "read" /\ rx_alive
    /\ conn_frames = << "text_json", "binary_non_utf8", "binary_json" >>
    /\ taken = << NewEvent("X", 0), NewEvent("X", 1) >>
    /\ taken = handed

\* --- C21 ------------------------------------------------------------
IsFailedRoundReport(r) == r.kind = "round_report" /\ ~r.written
IsFailedFinalReport(r) == r.kind = "final_report" /\ ~r.written

\* C21: a turn whose per-round report could not be written still completes
\* the round: the counter moves by one, both buffers are cleared, both flags
\* reset, and the run ends with Ok exactly when the round limit is reached
\* and goes on otherwise; a turn whose end-of-stream report could not be
\* written still returns Ok; the result is never an error.
C21_ReportFailureNotFatal ==
    /\ [][((ConsumedLeftStep \/ ConsumedRightStep) /\ Count(out', IsFailedRoundReport) > 0) =>
            /\ rounds_completed' = rounds_completed + 1
            /\ left_buffer'.states = << >> /\ right_buffer'.states = << >>
            /\ ~left_round_complete' /\ ~right_round_complete'
            /\ IF IsSome(max_rounds) /\ rounds_completed + 1 >= Unwrap(max_rounds)
               THEN pc' = "exit_max" /\ result' = Some("Ok")
               ELSE pc' = "loop" /\ result' = None]_vars
    /\ [][(pc = "loop" /\ pc' = "closed" /\ Count(out', IsFailedFinalReport) > 0) =>
            result' = Some("Ok")]_vars
    /\ [](result \in {None, Some("Ok")})

\* A round's report could not be written: the round is closed all the same
\* and the loop goes on.
C21_Witness ==
    /\ pc = "loop" /\ result = None /\ rounds_completed = 1
    /\ Count(out, IsFailedRoundReport) = 1
    /\ left_buffer.states = << >> /\ right_buffer.states = << >>

\* --- C26 ------------------------------------------------------------
\* The priority C26 states, from the two flags.
ModeByPriority == IF visual THEN "Visual" ELSE IF pretty_diff THEN "PrettyDiff" ELSE "Logs"

\* The output modes under which a turn can emit record r.
ModesOf(r) ==
    IF r.kind = "visual_round" THEN {"Visual"}
    ELSE IF r.kind = "round_waiting" THEN {"Logs"}
    ELSE IF IsContinuousDiff(r) THEN {"PrettyDiff"}
    ELSE IF r.kind \in {"round_complete", "diff", "missing_in_right", "only_in_right",
                        "exiting", "stream_closed", "aligned", "out_of_sync", "waiting"}
    THEN {"Logs", "PrettyDiff"}
    ELSE {"Visual", "PrettyDiff", "Logs"}

\* C26: the run's mode is Visual whenever the visual flag is set, whatever
\* the pretty flag; PrettyDiff when only the pretty flag is set; Logs
\* otherwise. Everything a turn emits belongs to that one mode (an aligned
\* pair is diffed in PrettyDiff mode and only there), and neither flag
\* changes during the run.
C26_OneOutputMode ==
    /\ [](mode = ModeByPriority)
    /\ [](\A n \in 1..Len(out) : ModeByPriority \in ModesOf(out[n]))
    /\ []((ModeByPriority = "PrettyDiff") =>
              Count(out, IsAligned) = Count(out, IsContinuousDiff))
    /\ [][UNCHANGED << visual, pretty_diff >>]_vars

\* Both flags set: the closing turn drew the Visual round screen.
C26_Witness ==
    /\ visual /\ pretty_diff
    /\ out # << >> /\ out[1].kind = "visual_round"

\* --- C28 ------------------------------------------------------------
\* The buffers as the push of this step leaves them, from the buffers before
\* it and the event taken from the channel.
LeftAfterPush ==
    IF ConsumedLeftStep
    THEN Append(left_buffer.states, StateNew(Head(left_rx), extract_key(Head(left_rx))))
    ELSE left_buffer.states
RightAfterPush ==
    IF ConsumedRightStep
    THEN Append(right_buffer.states, StateNew(Head(right_rx), extract_key(Head(right_rx))))
    ELSE right_buffer.states
\* State i of `states` takes part in what the closing turn emitted: it has
\* its result in the cross-comparison, or its row on the Visual round screen.
LeftTakesPart(emitted, states, i) ==
    IF visual
    THEN /\ emitted # << >> /\ emitted[1].kind = "visual_round"
         /\ i <= Len(emitted[1].rows)
         /\ emitted[1].rows[i].left_key = states[i].alignment_key
    ELSE \E n \in 1..Len(emitted) :
            /\ IsLeftResult(emitted[n]) /\ emitted[n].index = i
            /\ emitted[n].key = Unwrap(states[i].alignment_key)
            /\ emitted[n].kind = "diff" => emitted[n].left = states[i].data
RightTakesPart(emitted, states, j) ==
    IF visual
    THEN /\ emitted # << >> /\ emitted[1].kind = "visual_round"
         /\ j <= Len(emitted[1].rows)
         /\ emitted[1].rows[j].right_key = states[j].alignment_key
    ELSE \E n \in 1..Len(emitted) :
            /\ emitted[n].kind \in {"diff", "only_in_right"}
            /\ emitted[n].key = Unwrap(states[j].alignment_key)
RoundCloses == rounds_completed' # rounds_completed

\* C28: while a side's flag is set and the round is open, every event that
\* side consumes is pushed to its buffer, behind the signal; the turn that
\* closes the round compares every keyed left state the buffer then holds,
\* those pushed after the left signal included, and leaves both buffers
\* empty, so that nothing received before the boundary is in the next round.
C28_LateEventsInSameRound ==
    /\ [][(left_round_complete /\ ConsumedLeftStep /\ ~RoundCloses) =>
            left_buffer'.states = LeftAfterPush]_vars
    /\ [][(right_round_complete /\ ConsumedRightStep /\ ~RoundCloses) =>
            right_buffer'.states = RightAfterPush]_vars
    /\ [][RoundCloses =>
            /\ \A i \in 1..Len(LeftAfterPush) :
                  IsSome(LeftAfterPush[i].alignment_key) =>
                      LeftTakesPart(out', LeftAfterPush, i)
            /\ \A j \in 1..Len(RightAfterPush) :
                  IsSome(RightAfterPush[j].alignment_key) =>
                      RightTakesPart(out', RightAfterPush, j)
            /\ left_buffer'.states = << >> /\ right_buffer'.states = << >>]_vars
    /\ [](left_buffer.states
            = StatesOf(SubSeq(consumed_left, round_start[1] + 1, Len(consumed_left))))
    /\ [](right_buffer.states
            = StatesOf(SubSeq(consumed_right, round_start[2] + 1, Len(consumed_right))))

\* Left sent END and then X before right sent END: the closing turn reported
\* on the late X (state 2 of the left buffer).
C28_Witness ==
    /\ RoundClosed /\ ~visual /\ rounds_completed = 1
    /\ TypesOf(consumed_left) = << Signal, "X" >>
    /\ TypesOf(consumed_right) = << Signal >>
    /\ \E n \in 1..Len(out) : out[n].kind = "missing_in_right" /\ out[n].index = 2

\* --- C29 ------------------------------------------------------------
IsRoundReport(r) == r.kind = "round_report"
RoundReports(emitted) == SelectSeq(emitted, IsRoundReport)

\* C29: a turn that closes a round with a report configured emits exactly
\* one round report, holding the left and the right buffer as the completing
\* push left them, in buffer order: the events consumed since the previous
\* round boundary and no other; without a report path no report is made.
C29_ReportHoldsRoundBuffers ==
    /\ [][(RoundCloses /\ IsSome(report_output)) =>
            /\ Len(RoundReports(out')) = 1
            /\ RoundReports(out')[1].left = LeftAfterPush
            /\ RoundReports(out')[1].right = RightAfterPush
            /\ RoundReports(out')[1].left
                 = StatesOf(SubSeq(consumed_left', round_start[1] + 1, Len(consumed_left')))
            /\ RoundReports(out')[1].right
                 = StatesOf(SubSeq(consumed_right', round_start[2] + 1, Len(consumed_right')))]_vars
    /\ [][(RoundCloses /\ ~IsSome(report_output)) => RoundReports(out') = << >>]_vars
    /\ [][((ConsumedLeftStep \/ ConsumedRightStep) /\ ~RoundCloses) =>
            RoundReports(out') = << >>]_vars

\* The second round's report: it holds the second round's states only.
C29_Witness ==
    /\ RoundClosed /\ rounds_completed = 2 /\ Len(consumed_left) = 2
    /\ Len(RoundReports(out)) = 1
    /\ RoundReports(out)[1].left = StatesOf(LastN(consumed_left, 1))
    /\ RoundReports(out)[1].right = StatesOf(LastN(consumed_right, 1))
    /\ Len(consumed_right) = 2

C24_DistinctReportPaths ==
    \A i \in 1..Len(report_paths) : \A j \in 1..Len(report_paths) :
        (i < j /\ report_paths[i].written /\ report_paths[j].written) =>
            report_paths[i].path # report_paths[j].path

\* --- C27 ------------------------------------------------------------
\* The field names joined by the separator.
RECURSIVE Join(_)
Join(fields) ==
    IF Len(fields) = 1 THEN fields[1]
    ELSE fields[1] \o << Dot >> \o Join(Tail(fields))
\* at[i] is the value reached from `state` after the first i field names,
\* None from the first name on that is not a member of the object reached
\* (or when the value reached is not an object).
After(fields, state) ==
    LET at[i \in 0..Len(fields)] ==
            IF i = 0 THEN Some(state)
            ELSE IF /\ IsSome(at[i - 1])
                    /\ Unwrap(at[i - 1]).t = "object"
                    /\ fields[i] \in DOMAIN Unwrap(at[i - 1]).members
                 THEN Some(Unwrap(at[i - 1]).members[fields[i]])
                 ELSE None
    IN  at
ExampleNested == JObject(<< "message" >> :> JObject(<< "phase" >> :> JString("A")))
ExampleNumber == JObject(<< "type" >> :> JNumber(42))
AllKeys(key) == \A c \in 1..Len(ex_keys) : ex_keys[c] = key

\* C27: the extractor's field names are the pieces of the path between the
\* separators, in order; extract_key follows them from the event, gives no
\* key when a name is missing on the way or the value reached is an object,
\* an array or null, and otherwise the string itself, the number's decimal
\* form or true/false. The three examples hold, and every call on the same
\* event gives the same key.
C27_PathExtraction ==
    /\ IsSome(field_path) =>
          /\ Unwrap(field_path) # << >>
          /\ Join(Unwrap(field_path)) = ex_path
          /\ \A i \in 1..Len(Unwrap(field_path)) :
                \A k \in 1..Len(Unwrap(field_path)[i]) : Unwrap(field_path)[i][k] # Dot
    /\ ex_keys # << >> =>
          LET fields == Unwrap(field_path)
              at == After(fields, Unwrap(ex_state))
              leaf == at[Len(fields)]
          IN  /\ (\E i \in 1..Len(fields) : at[i] = None) => AllKeys(None)
              /\ (IsSome(leaf) /\ Unwrap(leaf).t \in {"object", "array", "null"}) => AllKeys(None)
              /\ (IsSome(leaf) /\ Unwrap(leaf).t = "string") => AllKeys(Some(Unwrap(leaf).s))
              /\ (IsSome(leaf) /\ Unwrap(leaf).t = "number")
                    => AllKeys(Some(ToString(Unwrap(leaf).n)))
              /\ (IsSome(leaf) /\ Unwrap(leaf).t = "bool")
                    => AllKeys(Some(IF Unwrap(leaf).b THEN "true" ELSE "false"))
    /\ (ex_state = Some(ExampleNested) /\ ex_path = << "message", Dot, "phase" >>)
          => AllKeys(Some("A"))
    /\ (ex_state = Some(ExampleNested) /\ ex_path = << "message", Dot, "missing" >>)
          => AllKeys(None)
    /\ (ex_state = Some(ExampleNumber) /\ ex_path = << "type" >>) => AllKeys(Some("42"))
    /\ \A c \in 1..Len(ex_keys) : \A d \in 1..Len(ex_keys) : ex_keys[c] = ex_keys[d]

\* The first example, extracted twice.
C27_Witness ==
    /\ ex_state = Some(ExampleNested) /\ ex_path = << "message", Dot, "phase" >>
    /\ ex_keys = << Some("A"), Some("A") >>

\* --- C30 ------------------------------------------------------------
IsRawDiff(r) == r.kind = "raw_diff"
Last(seq) == seq[Len(seq)]

\* C30: in Tracker::start a turn that receives an event prints exactly one
\* diff, of the last event received on the left against the last one
\* received on the right, when both sides have delivered one, and no diff
\* otherwise; no other turn prints a diff. The loop ends only on a channel
\* that is closed and drained (or on Ctrl+C), with Ok, and then consumes
\* nothing more.
C30_RawTracker ==
    /\ [][(ConsumedLeftStep \/ ConsumedRightStep) =>
            IF consumed_left' # << >> /\ consumed_right' # << >>
            THEN out' = << [kind |-> "raw_diff", left |-> Last(consumed_left'),
                            right |-> Last(consumed_right')] >>
            ELSE Count(out', IsRawDiff) = 0]_vars
    /\ [][(~ConsumedLeftStep /\ ~ConsumedRightStep /\ out' # out) =>
            Count(out', IsRawDiff) = 0]_vars
    /\ [](left_state = (IF consumed_left = << >> THEN None ELSE Some(Last(consumed_left))))
    /\ [](right_state = (IF consumed_right = << >> THEN None ELSE Some(Last(consumed_right))))
    /\ [][(pc = "loop" /\ pc' = "closed") =>
            /\ result' = Some("Ok")
            /\ \/ left_rx = << >> /\ ~left_tx_open
               \/ right_rx = << >> /\ ~right_tx_open]_vars
    /\ [][pc # "loop" => UNCHANGED << consumed_left, consumed_right, result >>]_vars
    /\ []((pc = "loop" /\ left_rx = << >> /\ ~left_tx_open) => ENABLED RawRecvLeftNone)
    /\ []((pc = "loop" /\ right_rx = << >> /\ ~right_tx_open) => ENABLED RawRecvRightNone)
    /\ [](result \in {None, Some("Ok")})

\* Left delivered twice after right delivered once: the third event's turn
\* diffs the second left value against the only right value.
C30_Witness ==
    /\ tracker = "raw" /\ pc = "loop" /\ last_side = "left"
    /\ Len(consumed_left) = 2 /\ Len(consumed_right) = 1
    /\ out = << [kind |-> "raw_diff", left |-> consumed_left[2], right |-> consumed_right[1]] >>

\* --- C22 ------------------------------------------------------------
\* C22: neither start() ever yields an error: every step that leaves the
\* loop (a closed source, the round limit, Ctrl+C) sets the result Ok, and a
\* program that ran a tracker exits with status 0; status 1 is reached only
\* from the failed validation, with no tracker built.
C22_StartNeverFails ==
    /\ [](result \in {None, Some("Ok")})
    /\ [][(pc = "loop" /\ pc' # "loop") => result' = Some("Ok")]_vars
    /\ []((main_pc = "exited" /\ tracker # "none") => exit_code = Some(0))
    /\ [](exit_code = Some(1) =>
            /\ tracker = "none" /\ pc = "init"
            /\ ReportWithoutRoundEnd
            /\ stderr = << ReportMessage >>)
    /\ [](exit_code \in {None, Some(0), Some(1)})

\* A run of the aligned tracker ended by the round limit, then exit status 0.
C22_Witness ==
    /\ main_pc = "exited" /\ exit_code = Some(0)
    /\ tracker = "aligned" /\ pc = "exit_max" /\ rounds_completed = 1

\* --- C23 ------------------------------------------------------------
\* C23: on track and on example, when --report is given without
\* --round-end, no tracker is ever built or started and no source spawned,
\* and the program's only exit is status 1 with the explanatory message.
C23_ReportRequiresRoundEnd ==
    (command \in {"track", "example"} /\ ReportWithoutRoundEnd) =>
        /\ tracker = "none" /\ pc = "init"
        /\ main_pc = "exited" => (exit_code = Some(1) /\ stderr = << ReportMessage >>)

\* --- C31 ------------------------------------------------------------
IsSignalEvent(data) == IsSome(round_end_signal) /\ extract_key(data) = round_end_signal
SignalsLeft == Count(consumed_left, IsSignalEvent)
SignalsRight == Count(consumed_right, IsSignalEvent)

\* C31: the round counter is at most the number of signal events consumed on
\* the left and at most the number consumed on the right; a flag that is set
\* stays set through every turn that does not complete a round, whatever is
\* consumed, and a turn that completes a round leaves both flags clear, so a
\* repeated signal of the closed round sets no flag for the next one.
C31_RoundsBoundedBySignals ==
    /\ [](rounds_completed <= SignalsLeft /\ rounds_completed <= SignalsRight)
    /\ [][(left_round_complete /\ ~RoundCloses) => left_round_complete']_vars
    /\ [][(right_round_complete /\ ~RoundCloses) => right_round_complete']_vars
    /\ [][RoundCloses => (~left_round_complete' /\ ~right_round_complete')]_vars
    /\ [](left_round_complete =>
            \E i \in (round_start[1] + 1)..Len(consumed_left) : IsSignalEvent(consumed_left[i]))
    /\ [](right_round_complete =>
            \E i \in (round_start[2] + 1)..Len(consumed_right) : IsSignalEvent(consumed_right[i]))

\* Left sent the signal twice within round 1; after right's two signals only
\* one round is complete and the left flag is clear.
C31_Witness ==
    /\ pc = "loop" /\ rounds_completed = 1
    /\ TypesOf(consumed_left) = << Signal, Signal >>
    /\ TypesOf(consumed_right) = << Signal, Signal >>
    /\ round_start = << 2, 1 >>
    /\ right_round_complete /\ ~left_round_complete

\* --- C32 ------------------------------------------------------------
\* A side has delivered a signal event since the last round boundary: the
\* event is queued on its channel or was consumed after the boundary.
DeliveredSignalLeft ==
    \/ \E i \in 1..Len(left_rx) : IsSignalEvent(left_rx[i])
    \/ \E i \in (round_start[1] + 1)..Len(consumed_left) : IsSignalEvent(consumed_left[i])
DeliveredSignalRight ==
    \/ \E i \in 1..Len(right_rx) : IsSignalEvent(right_rx[i])
    \/ \E i \in (round_start[2] + 1)..Len(consumed_right) : IsSignalEvent(consumed_right[i])
BothDelivered == DeliveredSignalLeft /\ DeliveredSignalRight

\* C32: once both sides have delivered a signal event since the last round
\* boundary, they stay delivered through every turn that completes no round,
\* whatever else is sent and however the two sides are consumed, and the
\* loop reaches a state in which they are not, or has ended; it gets there
\* only by a turn that completes a round, or by Ctrl+C.
C32_RoundEventuallyCompletes ==
    /\ (BothDelivered /\ pc = "loop") ~> (~BothDelivered \/ pc # "loop")
    /\ [][(BothDelivered /\ ~BothDelivered') => RoundCloses]_vars
    /\ [][(BothDelivered /\ pc = "loop" /\ pc' # "loop") => (RoundCloses \/ pc' = "ctrl_c")]_vars
    /\ [][(DeliveredSignalLeft /\ ~RoundCloses) => DeliveredSignalLeft']_vars
    /\ [][(DeliveredSignalRight /\ ~RoundCloses) => DeliveredSignalRight']_vars

\* Round 1 completed although each side sent another event before its
\* signal and the right side was consumed first.
C32_Witness ==
    /\ RoundClosed /\ rounds_completed = 1
    /\ TypesOf(consumed_left) = << "X", Signal >>
    /\ TypesOf(consumed_right) = << "X", Signal >>
    /\ last_side = "left"

\* --- C33 ------------------------------------------------------------
\* The loop is suspended at its select!, or has returned.
AtSuspension == pc \in {"loop", "exit_max", "ctrl_c"}
\* What an observer between two arms may rely on: every counted round has
\* been cleared, no round is half done (the flags are not both set), and
\* each buffer holds the events consumed since the last round boundary.
ArmConsistent ==
    /\ rounds_completed = clears
    /\ ~(left_round_complete /\ right_round_complete)
    /\ left_buffer.states
         = StatesOf(SubSeq(consumed_left, round_start[1] + 1, Len(consumed_left)))
    /\ right_buffer.states
         = StatesOf(SubSeq(consumed_right, round_start[2] + 1, Len(consumed_right)))
    /\ rounds_completed > 0 /\ round_start = << Len(consumed_left), Len(consumed_right) >>
          => (left_buffer.states = << >> /\ right_buffer.states = << >>)

\* C33: cancellation and the consumption of a further event, from either
\* side, happen only while the loop is suspended at its select!, never
\* inside an arm; an event sent meanwhile only waits on its channel; and at
\* every suspension the round bookkeeping is consistent: the counter is never
\* seen incremented with the buffers not yet cleared or the flags not reset.
C33_ArmIsOneStep ==
    /\ [](AtSuspension => ArmConsistent)
    /\ [][pc' = "ctrl_c" => pc = "loop"]_vars
    /\ [][(ConsumedLeftStep \/ ConsumedRightStep) => pc = "loop"]_vars
    /\ [][(pc \in {"pushed", "counted"} /\ pc' = pc) =>
            UNCHANGED << loop_vars, hist_vars >>]_vars
    /\ [][(pc = "counted") => pc' \in {"counted", "loop", "exit_max"}]_vars

\* Ctrl+C taken at the first suspension after a round was completed.
C33_Witness ==
    /\ pc = "ctrl_c" /\ rounds_completed = 1 /\ clears = 1
    /\ left_buffer.states = << >> /\ right_buffer.states = << >>
    /\ ~left_round_complete /\ ~right_round_complete

\* --- C34 ------------------------------------------------------------
\* C34: a turn that consumes a left event and completes no round appends
\* that event's state to the left buffer, may set the left flag (only when
\* the event carries the signal) and never clears it, and leaves the right
\* buffer and the right flag as they were; likewise with the sides swapped.
\* A turn that completes a round leaves both buffers empty and both flags
\* clear. No other step changes a buffer or a flag.
C34_OneSidePerEvent ==
    /\ [][(ConsumedLeftStep /\ ~RoundCloses) =>
            /\ left_buffer'.states = LeftAfterPush
            /\ Len(left_buffer'.states) = Len(left_buffer.states) + 1
            /\ left_round_complete' = (left_round_complete \/ IsSignalEvent(Head(left_rx)))
            /\ right_buffer' = right_buffer
            /\ right_round_complete' = right_round_complete]_vars
    /\ [][(ConsumedRightStep /\ ~RoundCloses) =>
            /\ right_buffer'.states = RightAfterPush
            /\ Len(right_buffer'.states) = Len(right_buffer.states) + 1
            /\ right_round_complete' = (right_round_complete \/ IsSignalEvent(Head(right_rx)))
            /\ left_buffer' = left_buffer
            /\ left_round_complete' = left_round_complete]_vars
    /\ [][RoundCloses =>
            /\ ConsumedLeftStep \/ ConsumedRightStep
            /\ left_buffer'.states = << >> /\ right_buffer'.states = << >>
            /\ ~left_round_complete' /\ ~right_round_complete']_vars
    /\ [][(~ConsumedLeftStep /\ ~ConsumedRightStep) =>
            UNCHANGED << left_buffer, right_buffer, left_round_complete,
                         right_round_complete >>]_vars
    /\ [][~(ConsumedLeftStep /\ ConsumedRightStep)]_vars

\* A left signal event was consumed while the right buffer held a state: the
\* left flag is set, the right buffer and flag are as before.
C34_Witness ==
    /\ pc = "loop" /\ last_side = "left" /\ rounds_completed = 0
    /\ TypesOf(consumed_left) = << Signal >> /\ TypesOf(consumed_right) = << "X" >>
    /\ left_round_complete /\ ~right_round_complete
    /\ Len(left_buffer.states) = 1 /\ Len(right_buffer.states) = 1

\* --- C35 ------------------------------------------------------------
LimitZeroOrOne == max_rounds \in {Some(0), Some(1)}

SinceLeft == SubSeq(consumed_left, round_start[1] + 1, Len(consumed_left))
SinceRight == SubSeq(consumed_right, round_start[2] + 1, Len(consumed_right))
Retained(events) == StatesOf(LastN(events, Min2(Len(events), BufferCapacity)))
\* The states a closing turn compares, from what was consumed since the
\* boundary and what the turn consumes.
ClosingLeft == Retained(IF ConsumedLeftStep THEN Append(SinceLeft, Head(left_rx)) ELSE SinceLeft)
ClosingRight ==
    Retained(IF ConsumedRightStep THEN Append(SinceRight, Head(right_rx)) ELSE SinceRight)
HoldsSignal(states) == \E i \in 1..Len(states) : IsSignal(states[i].alignment_key)

\* C36: each buffer holds the last min(k, 100) of the k states its side
\* received since the last round boundary; a side's flag is set exactly when
\* a signal event was among those k, whether or not its state is still in
\* the buffer; the turn that sets the second flag completes the round, and
\* what it compares (the key-based cross-comparison, or the Visual round
\* screen) is computed from the retained states only.
C36_RoundComparesLastHundred ==
    /\ [](/\ left_buffer.states = Retained(SinceLeft)
          /\ right_buffer.states = Retained(SinceRight)
          /\ left_round_complete = (\E i \in 1..Len(SinceLeft) : IsSignalEvent(SinceLeft[i]))
          /\ right_round_complete = (\E i \in 1..Len(SinceRight) : IsSignalEvent(SinceRight[i])))
    /\ [][(ConsumedLeftStep /\ right_round_complete
              /\ (left_round_complete \/ IsSignalEvent(Head(left_rx)))) => RoundCloses]_vars
    /\ [][(ConsumedRightStep /\ left_round_complete
              /\ (right_round_complete \/ IsSignalEvent(Head(right_rx)))) => RoundCloses]_vars
    /\ [][RoundCloses =>
            /\ last_round' = Some([left |-> ClosingLeft, right |-> ClosingRight])
            /\ IF visual
               THEN out'[1] = render_round_comparison(ClosingLeft, ClosingRight)
               ELSE /\ SelectSeq(out', IsLeftResult) = CompareLeft(ClosingLeft, ClosingRight)
                    /\ out'[1] = [kind |-> "round_complete", left_len |-> Len(ClosingLeft),
                                  right_len |-> Len(ClosingRight)]]_vars

\* A round closed after more than 100 left events: the left signal state,
\* the first of them, was evicted and took no part.
C36_Witness ==
    /\ RoundClosed /\ rounds_completed = 1
    /\ Len(consumed_left) > BufferCapacity
    /\ IsSignalEvent(consumed_left[1])
    /\ Len(RoundLeft) = BufferCapacity
    /\ ~HoldsSignal(RoundLeft)
    /\ Len(RoundRight) = 1

\* --- C37 ------------------------------------------------------------
\* The key of the event a side consumed last, None before its first event
\* and when that event carries no key.
LastKey(consumed) == IF consumed = << >> THEN None ELSE extract_key(Last(consumed))

\* C37: without a round-end signal, what a turn emits is decided by the key
\* of the event each side consumed last and by no earlier one: "aligned"
\* exactly when both carry one key (and the mode is not Visual), and, when
\* the side's last event carries no key while the other side's does, the
\* other side is reported as ahead and waiting, whatever keys came before.
C37_LatestKeyOnly ==
    (round_end_signal = None /\ AfterTurn) =>
        LET l_key == LastKey(consumed_left)
            r_key == LastKey(consumed_right)
        IN  /\ (Count(out, IsAligned) > 0)
                  <=> (~visual /\ IsSome(l_key) /\ l_key = r_key)
            /\ (l_key = None /\ IsSome(r_key)) =>
                  out = IF visual THEN << >>
                        ELSE << [kind |-> "waiting", ahead |-> "right", key |-> Unwrap(r_key)] >>
            /\ (r_key = None /\ IsSome(l_key)) =>
                  out = IF visual THEN << >>
                        ELSE << [kind |-> "waiting", ahead |-> "left", key |-> Unwrap(l_key)] >>

\* Left consumed X and then an event without key; right's X, arriving
\* last, is reported as right being ahead.
C37_Witness ==
    /\ round_end_signal = None /\ ~visual /\ pc = "loop"
    /\ TypesOf(consumed_left) = << "X", Null >>
    /\ TypesOf(consumed_right) = << "X" >>
    /\ last_side = "right"
    /\ out = << [kind |-> "waiting", ahead |-> "right", key |-> "X"] >>

\* --- C38 ------------------------------------------------------------
IsKeyComparison(r) == r.kind \in {"diff", "missing_in_right", "only_in_right"}
KeyAt(states, i) == IF i <= Len(states) THEN states[i].alignment_key ELSE None

\* C38: in Visual mode the turn that closes a round emits no result of the
\* key-based cross-comparison and no diff; its round screen has one row per
\* buffer index up to the longer buffer, row i showing the keys of left
\* state i and right state i, marked as a match only when both are present
\* and equal and as a mismatch when both are present and differ, wherever
\* else in the other buffer the key occurs.
C38_VisualPairsByIndex ==
    (RoundClosed /\ visual) =>
        /\ Count(out, IsKeyComparison) = 0
        /\ out # << >> /\ out[1].kind = "visual_round"
        /\ Len(out[1].rows) = IF Len(RoundLeft) >= Len(RoundRight)
                              THEN Len(RoundLeft) ELSE Len(RoundRight)
        /\ \A i \in 1..Len(out[1].rows) :
              LET row == out[1].rows[i]
              IN  /\ row.left_key = KeyAt(RoundLeft, i)
                  /\ row.right_key = KeyAt(RoundRight, i)
                  /\ (row.status = "ok")
                        <=> (IsSome(row.left_key) /\ row.left_key = row.right_key)
                  /\ (row.status = "MISMATCH")
                        <=> (IsSome(row.left_key) /\ IsSome(row.right_key)
                             /\ row.left_key # row.right_key)

\* Both sides carried the keys X and the signal, in opposite orders: both
\* rows of the round screen are mismatches.
C38_Witness ==
    /\ RoundClosed /\ visual /\ rounds_completed = 1
    /\ TypesOf(consumed_left) = << "X", Signal >>
    /\ TypesOf(consumed_right) = << Signal, "X" >>
    /\ Len(out[1].rows) = 2
    /\ out[1].rows[1].status = "MISMATCH"
    /\ out[1].rows[2].status = "MISMATCH"

\* --- C39 ------------------------------------------------------------
FinalReports == SelectSeq(out, IsFinalReport)

\* C39: the run-level reporter holds every state consumed on each side since
\* the start, in arrival order, across round boundaries and beyond the
\* buffer capacity; the turn that ends the loop on a closed source writes
\* exactly these states, once, to the configured path as it is, with no
\* stamp; the turn that ends the run at the round limit, and every turn that
\* keeps the loop running, writes no end-of-run report.
C39_FinalReportHoldsWholeRun ==
    /\ [](IsSome(reporter) =>
            /\ Unwrap(reporter).left_states = StatesOf(consumed_left)
            /\ Unwrap(reporter).right_states = StatesOf(consumed_right))
    /\ []((pc = "closed" /\ IsSome(report_output)) =>
            /\ Len(FinalReports) = 1
            /\ FinalReports[1].left = StatesOf(consumed_left)
            /\ FinalReports[1].right = StatesOf(consumed_right)
            /\ FinalReports[1].path = [base |-> Unwrap(report_output), suffix |-> None])
    /\ [](pc # "closed" => Len(FinalReports) = 0)
    /\ [][pc' = "exit_max" => Count(out', IsFinalReport) = 0]_vars

\* A run of one round and more than 100 left events that ended on a closed
\* source: its report holds them all, the states of the closed round too.
C39_Witness ==
    /\ pc = "closed" /\ rounds_completed = 1 /\ clears = 1
    /\ Len(consumed_left) > BufferCapacity
    /\ round_start[1] > 0
    /\ Len(FinalReports) = 1
    /\ FinalReports[1].written
    /\ Len(FinalReports[1].left) = Len(consumed_left)
    /\ Len(FinalReports[1].right) = 1
    /\ FinalReports[1].path = [base |-> ReportPath, suffix |-> None]

====
